---- MODULE Spec2Model ----
(***************************************************************************)
(* OrcaMath: the solve screen (ProblemSolveScreen.tsx), the remote judge   *)
(* client (llmValidator.ts) and the two store tables the screen writes     *)
(* (problem_attempts, activity_log), for one signed-in user on one         *)
(* calendar day.                                                           *)
(*                                                                         *)
(* Every awaited store request is one step of the model: the step at which *)
(* the store serves the request, followed at once by the code that runs    *)
(* after the await up to the next await.  A request that has been issued   *)
(* and not yet served is a record of the bag ops.  State setters called in *)
(* one continuation are batched into one render, and the effects of that   *)
(* render run before any other step.  A screen that was left keeps its     *)
(* requests running (nothing is cancelled); their setState calls then do   *)
(* nothing.                                                                *)
(***************************************************************************)
EXTENDS Integers, Sequences, FiniteSets, Bags, TLC

\* ---------------------------------------------------------------- bounds
\* user gestures (open a problem, commit, undo, recognize) in one behaviour
MaxEvents == 3
\* length of a text, and of a step list, of the final check
MaxText == 2
\* calls of recognizeHandwriting in one behaviour
MaxCalls == 3
\* store requests that fail in one behaviour
MaxFailures == 1
\* length of the list, largest page index and page size given to
\* paginateProblems
MaxProblems == 5
MaxPage == 3
MaxPageSize == 3
\* problems solved and steps completed on one day of the calendar
MaxSolved == 7
MaxStepsDay == 7

\* ---------------------------------------------------------------- values
Problems == {"p1", "p2"}

\* types.ts StepOutcome
StepOutcome == {"pending", "correct", "incorrect", "neutral"}

\* what the judge endpoint can answer: a parsed body, or one of the failures
JudgeOutcomes == {"correct", "incorrect", "neutral"}
JudgeFailures == {"fetch_rejects", "status_not_ok", "body_unparsable"}
JudgeFeedback == "judge feedback"
FallbackFeedback == "Unable to validate step (API unavailable). Continue working."

\* recognizedImage: null, or the base64 image of the canvas
NoImage == "null"
Images == {"png1"}
\* recognizedText: null is <<>>, the text t is <<t>>
NoText == <<>>

VARIABLES
  \* store
  attempts,        \* problem_attempts rows, in insertion order (id = index)
  activity,        \* activity_log rows of (user, today), in insertion order
  \* solve screen (one mounted instance at most)
  mounted, problem, steps, typedDraft, recognizedText, recognizedImage,
  recognizing, validating, attemptId, hasSavedRef, isLoadingRef,
  alert,           \* the last Alert.alert title shown, "none" before any
  ops,             \* bag of requests in flight
  now,             \* the client clock, read by markAsSolved
  adopted,         \* which branch of loadOrCreateAttempt set attemptId
  events,          \* number of user gestures so far
  \* final check (llmValidator.checkIfSolved), on character-level texts
  fcAnswer, fcSteps, fcResult,
  \* the built-in checker (checker.ts): a step list, a new line, and the
  \* results of checkNewLine and of finalCheck
  hcSteps, hcLine, hcResult, hcFinal,
  \* recognizeHandwriting (mathpix.ts): whether a call awaits its response,
  \* the requests sent so far, the last response, what the calls returned
  rhAwaiting, rhRequests, rhResponse, rhReturned,
  \* store requests that have failed so far
  failures,
  \* problemsData.ts: the bundled JSONL file, the module's three variables,
  \* the promises loadProblems has created, the reads of the file started,
  \* and what each call of loadProblems returned
  dataFile, cachedProblems, loadingPromise, hasInitialized, promises, reads,
  returned,
  \* paginateProblems: a list, a page, a page size and the page returned
  pgList, pgPage, pgSize, pgResult,
  \* the profile's calendar: activityData[dateStr] of a day, and the level
  \* getActivityLevel gave it
  lvActivity, lvLevel,
  \* the auth context and the navigator: the session supabase holds, the
  \* context's session, user, profile and loading states, the pending
  \* getSession promise, the auth events not yet delivered, the loadProfile
  \* calls in flight, the screens the navigator registers, sign-ins and outs
  auSession, auCtxSession, auUser, auProfile, auLoading, auGetSession,
  auEvents, auProfileLoads, auScreens, auSigns,
  \* the problems list screen: the loaded problems, the search box, the page
  allProblems, searchQuery, currentPage

storeVars == <<attempts, activity>>
screenVars == <<mounted, problem, steps, typedDraft, recognizedText,
                recognizedImage, recognizing, validating, attemptId,
                hasSavedRef, isLoadingRef, alert, adopted>>
finalVars == <<fcAnswer, fcSteps, fcResult>>
checkerVars == <<hcSteps, hcLine, hcResult, hcFinal>>
\* the state of the modules the solve screen's handlers never write
recognizerVars == <<rhAwaiting, rhRequests, rhResponse, rhReturned>>
faultVars == <<failures>>
loaderVars == <<dataFile, cachedProblems, loadingPromise, hasInitialized,
                promises, reads, returned>>
pagerVars == <<pgList, pgPage, pgSize, pgResult>>
\* the state of the problems browser, the profile and the navigator
levelVars == <<lvActivity, lvLevel>>
authVars == <<auSession, auCtxSession, auUser, auProfile, auLoading,
              auGetSession, auEvents, auProfileLoads, auScreens, auSigns>>
listVars == <<allProblems, searchQuery, currentPage>>
moreVars == <<authVars, listVars>>
baseVars == <<pagerVars, levelVars>>
extraVars == <<baseVars, moreVars>>
libVars == <<finalVars, checkerVars, recognizerVars, faultVars, loaderVars,
             extraVars>>
\* the state of the solve screen, the store and the validation modules
appVars == <<storeVars, screenVars, ops, now, events, finalVars, checkerVars,
             recognizerVars, faultVars, loaderVars>>
vars == <<storeVars, screenVars, ops, now, events, libVars>>

\* ------------------------------------------------------------- strings
\* texts are sequences of one-character strings
IsSpace(c) == c \in {" ", "\t"}

RECURSIVE TrimLeft(_)
TrimLeft(s) == IF s # <<>> /\ IsSpace(Head(s)) THEN TrimLeft(Tail(s)) ELSE s

RECURSIVE TrimRight(_)
TrimRight(s) ==
  IF s # <<>> /\ IsSpace(s[Len(s)]) THEN TrimRight(SubSeq(s, 1, Len(s) - 1)) ELSE s

\* String.prototype.trim
Trim(s) == TrimRight(TrimLeft(s))

\* the drafts the user can type into the text field
Drafts == {<<>>, <<" ", "x", " ">>}

\* the text fields of the recognition endpoint's JSON bodies
RecognizedBodies == {<<>>, <<" ">>, <<"y">>, <<" ", "y", "\t">>}

\* what the fetch of the recognition endpoint comes to: no response (the
\* endpoint is unreachable), or a response with a status that is ok or not
\* and a body that is JSON or not, the JSON object with a text field or not
RecognitionResponses ==
  {[reached |-> FALSE, ok |-> FALSE, json |-> FALSE, hasText |-> FALSE, text |-> <<>>]}
  \cup {[reached |-> TRUE, ok |-> o, json |-> FALSE, hasText |-> FALSE, text |-> <<>>] :
          o \in BOOLEAN}
  \cup {[reached |-> TRUE, ok |-> o, json |-> TRUE, hasText |-> FALSE, text |-> <<>>] :
          o \in BOOLEAN}
  \cup {[reached |-> TRUE, ok |-> o, json |-> TRUE, hasText |-> TRUE, text |-> t] :
          o \in BOOLEAN, t \in RecognizedBodies}

\* recognizeHandwriting reading the body whatever the status is
RecognizeHandwritingAnyStatus(resp) ==
  IF ~resp.reached \/ ~resp.json
  THEN [ok |-> FALSE, text |-> <<>>]
  ELSE [ok |-> TRUE, text |-> Trim(IF resp.hasText THEN resp.text ELSE <<>>)]

\* mathpix.ts recognizeHandwriting, given what its fetch came to: it throws
\* (ok FALSE) when fetch rejects, when the status is not ok and when the body
\* is not JSON, and returns (data.text || '').trim() otherwise
RecognizeHandwriting(resp) ==
  IF ~resp.reached \/ ~resp.ok \/ ~resp.json
  THEN [ok |-> FALSE, text |-> <<>>]
  ELSE [ok |-> TRUE, text |-> Trim(IF resp.hasText THEN resp.text ELSE <<>>)]

\* what a call of recognizeHandwriting comes to: a text ("" when nothing was
\* read), or a thrown error
RecognitionResults == {RecognizeHandwriting(resp) : resp \in RecognitionResponses}

\* ---------------------------------------------------------------- steps
\* lib/supabase.ts StepData: a Step plus the time it was saved at
ToStepData(s) ==
  [text |-> s.text, outcome |-> s.outcome, feedback |-> s.feedback,
   imageBase64 |-> s.imageBase64, timestamp |-> "saved"]

\* loadOrCreateAttempt: a stored StepData back to a Step
FromStepData(d) ==
  [text |-> d.text, outcome |-> d.outcome, feedback |-> d.feedback,
   imageBase64 |-> d.imageBase64]

\* steps.map(...) of saveProgress and of loadOrCreateAttempt
StepsToData(ss) == [i \in 1..Len(ss) |-> ToStepData(ss[i])]
DataToSteps(ds) == [i \in 1..Len(ds) |-> FromStepData(ds[i])]

\* solved when exactly one step is correct and it is the last one
SolvedExactlyOnce(ss) ==
  /\ Cardinality({i \in 1..Len(ss) : ss[i].outcome = "correct"}) = 1
  /\ Len(ss) > 0 /\ ss[Len(ss)].outcome = "correct"

\* steps.some(s => s.outcome === "correct") alone
SolvedAnyCorrect(ss) == \E i \in 1..Len(ss) : ss[i].outcome = "correct"

\* steps.some(s => s.outcome === "correct") && steps[steps.length-1]?.outcome === "correct"
Solved(ss) ==
  /\ \E i \in 1..Len(ss) : ss[i].outcome = "correct"
  /\ Len(ss) > 0 /\ ss[Len(ss)].outcome = "correct"

\* ---------------------------------------------------------------- store
\* started_at is the store's NOW() at insert: rows are kept in that order
started_at(a) == a

OfPair(pid) == {a \in DOMAIN attempts : attempts[a].problem_id = pid}

\* the unsolved lookup with the order ascending
SelectUnsolvedOldest(pid) ==
  LET c == {a \in OfPair(pid) : ~attempts[a].is_solved}
  IN IF c = {} THEN 0
     ELSE CHOOSE a \in c : \A b \in c : started_at(a) <= started_at(b)

\* .eq('is_solved', false).order('started_at', {ascending: false}).limit(1).maybeSingle()
\* 0 stands for null
SelectUnsolved(pid) ==
  LET c == {a \in OfPair(pid) : ~attempts[a].is_solved}
  IN IF c = {} THEN 0
     ELSE CHOOSE a \in c : \A b \in c : started_at(b) <= started_at(a)

\* .eq('is_solved', true).order('completed_at', {ascending: false}).limit(1).maybeSingle()
SelectSolved(pid) ==
  LET c == {a \in OfPair(pid) : attempts[a].is_solved}
  IN IF c = {} THEN 0
     ELSE CHOOSE a \in c :
            \A b \in c : attempts[b].completed_at <= attempts[a].completed_at

\* .eq('is_solved', true).neq('id', attemptId).limit(1).maybeSingle(): a row or null
SelectPreviouslySolved(pid, aid) ==
  \E a \in OfPair(pid) : attempts[a].is_solved /\ a # aid

\* .insert({..., steps: [], is_solved: false}).select().single()
NewAttempt(pid) ==
  [problem_id |-> pid, steps |-> <<>>, is_solved |-> FALSE, completed_at |-> 0]

\* .eq('user_id', ..).eq('activity_date', today).maybeSingle(): the row's id when
\* there is exactly one row, null (0) when there is none, and null with an
\* error nobody reads when there are several
SelectActivity == IF Len(activity) = 1 THEN 1 ELSE 0

NewActivity(solved, completed) ==
  [problems_solved |-> solved, steps_completed |-> completed]

\* ------------------------------------------------------------- requests
\* one asynchronous call in flight: pc names the request the store has not
\* served yet; the other fields are the call's closure and locals
Op(pc, live, pid, aid, data, row, num, first, stamp) ==
  [pc |-> pc, live |-> live, pid |-> pid, aid |-> aid, data |-> data,
   row |-> row, num |-> num, first |-> first, stamp |-> stamp]

InFlight == BagToSet(ops)
One(o) == SetToBag({o})

\* the requests of a screen that is left go on; its setters no longer act
Orphan(o) == [o EXCEPT !.live = FALSE]
Orphaned ==
  LET n(o) == IF o \in DOMAIN ops THEN ops[o] ELSE 0
  IN [d \in {Orphan(o) : o \in InFlight} |-> n(d) + n([d EXCEPT !.live = TRUE])]

\* ------------------------------------------------------------- effects
\* the auto-save effect (deps steps, attemptId, user), run after a render in
\* which steps or attemptId changed to ns and na
\* the auto-save effect without its hasSavedRef test
SaveStartsUnflagged(ns, na, loading) ==
  na # 0 /\ Len(ns) > 0 /\ ~loading

SaveStarts(ns, na, loading) ==
  na # 0 /\ Len(ns) > 0 /\ ~hasSavedRef /\ ~loading

\* the solved effect (deps solved, user, attemptId)
MarkStarts(ns, na) ==
  (Solved(ns) # Solved(steps) \/ na # attemptId) /\ Solved(ns) /\ na # 0

\* saveProgress() and markAsSolved() as called by the effects: each issues its
\* first request at once, with the steps and attemptId of that render
SaveOp(ns, na) == Op("save", TRUE, problem, na, StepsToData(ns), 0, 0, FALSE, 0)
MarkOp(na) == Op("mark_update", TRUE, problem, na, <<>>, 0, 0, FALSE, now)

EffectOps(ns, na, loading) ==
  (IF SaveStarts(ns, na, loading) THEN One(SaveOp(ns, na)) ELSE EmptyBag)
  (+) (IF MarkStarts(ns, na) THEN One(MarkOp(na)) ELSE EmptyBag)

\* a render of the mounted screen with new steps and attemptId, after a
\* continuation that leaves the bag of requests as rest
Render(ns, na, loading, rest) ==
  /\ steps' = ns
  /\ attemptId' = na
  /\ isLoadingRef' = loading
  /\ hasSavedRef' = (hasSavedRef \/ SaveStarts(ns, na, loading))
  /\ now' = IF MarkStarts(ns, na) THEN now + 1 ELSE now
  /\ ops' = rest (+) EffectOps(ns, na, loading)

\* ----------------------------------------------------------------- Init
\* the built-in checker has been given nothing
CheckerIdle ==
  /\ hcSteps = <<>>
  /\ hcLine = <<>>
  /\ hcResult = <<>>
  /\ hcFinal = <<>>

\* paginateProblems has been given nothing
PagerIdle ==
  /\ pgList = <<>>
  /\ pgPage = 0
  /\ pgSize = 1
  /\ pgResult = <<>>

\* getActivityLevel has been given nothing
LevelIdle ==
  /\ lvActivity = <<>>
  /\ lvLevel = <<>>

\* no AuthProvider is mounted
AuthIdle ==
  /\ auSession = 0
  /\ auCtxSession = 0
  /\ auUser = 0
  /\ auProfile = 0
  /\ auLoading = TRUE
  /\ auGetSession = FALSE
  /\ auEvents = <<>>
  /\ auProfileLoads = 0
  /\ auScreens = {}
  /\ auSigns = 0

\* no problems list is mounted
ListIdle ==
  /\ allProblems = <<>>
  /\ searchQuery = <<>>
  /\ currentPage = 0

MoreIdle == AuthIdle /\ ListIdle

ExtraIdle == PagerIdle /\ LevelIdle /\ MoreIdle

\* problemsData.ts as the module is evaluated, with no file modelled
LoaderIdle ==
  /\ dataFile = <<>>
  /\ cachedProblems = <<>>
  /\ loadingPromise = 0
  /\ hasInitialized = FALSE
  /\ promises = <<>>
  /\ reads = 0
  /\ returned = <<>>

\* recognizeHandwriting has not been called
RecognizerIdle ==
  /\ rhAwaiting = FALSE
  /\ rhRequests = 0
  /\ rhResponse = <<>>
  /\ rhReturned = <<>>

\* the state of a screen instance as useState/useRef construct it
FreshScreen ==
  /\ steps' = <<>>
  /\ typedDraft' = <<>>
  /\ recognizedText' = NoText
  /\ recognizedImage' = NoImage
  /\ recognizing' = FALSE
  /\ validating' = FALSE
  /\ attemptId' = 0
  /\ hasSavedRef' = FALSE
  /\ alert' = "none"
  /\ adopted' = "none"

Init ==
  /\ attempts = <<>>
  /\ activity = <<>>
  /\ mounted = FALSE
  /\ problem = "p1"
  /\ steps = <<>>
  /\ typedDraft = <<>>
  /\ recognizedText = NoText
  /\ recognizedImage = NoImage
  /\ recognizing = FALSE
  /\ validating = FALSE
  /\ attemptId = 0
  /\ hasSavedRef = FALSE
  /\ isLoadingRef = FALSE
  /\ alert = "none"
  /\ ops = EmptyBag
  /\ now = 1
  /\ adopted = "none"
  /\ events = 0
  /\ fcAnswer = <<>>
  /\ fcSteps = <<>>
  /\ fcResult = <<>>
  /\ CheckerIdle
  /\ RecognizerIdle
  /\ failures = 0
  /\ LoaderIdle
  /\ ExtraIdle

\* ------------------------------------------------- entering and leaving
\* navigation to ProblemSolve: the load effect runs loadOrCreateAttempt, which
\* sets isLoadingRef and issues the unsolved lookup.  Problems differ in
\* nothing but their id: the first one opened is called p1.
Mount(pid) ==
  /\ ~mounted
  /\ events < MaxEvents
  /\ events = 0 => pid = "p1"
  /\ mounted' = TRUE
  /\ problem' = pid
  /\ FreshScreen
  /\ isLoadingRef' = TRUE
  /\ ops' = ops (+) One(Op("load_unsolved", TRUE, pid, 0, <<>>, 0, 0, FALSE, 0))
  /\ events' = events + 1
  /\ UNCHANGED <<storeVars, now, libVars>>

\* navigation.goBack(): the instance is dropped, no request is aborted
Unmount ==
  /\ mounted
  /\ mounted' = FALSE
  /\ problem' = "p1"
  /\ FreshScreen
  /\ isLoadingRef' = FALSE
  /\ ops' = Orphaned
  /\ UNCHANGED <<storeVars, now, events, libVars>>

\* ------------------------------------------------- loadOrCreateAttempt
\* after the unsolved lookup
LoadUnsolved(op) ==
  /\ op \in InFlight /\ op.pc = "load_unsolved"
  /\ LET unsolved == SelectUnsolved(op.pid)
         rest == ops (-) One(op)
     IN IF unsolved = 0
        THEN /\ ops' = rest (+) One([op EXCEPT !.pc = "load_solved"])
             /\ UNCHANGED <<screenVars, now>>
        ELSE IF op.live
        THEN /\ Render(DataToSteps(attempts[unsolved].steps), unsolved, FALSE, rest)
             /\ adopted' = "unsolved"
             /\ UNCHANGED <<mounted, problem, typedDraft, recognizedText,
                            recognizedImage, recognizing, validating, alert>>
        ELSE /\ ops' = rest
             /\ UNCHANGED <<screenVars, now>>
  /\ UNCHANGED <<storeVars, events, libVars>>

\* after the solved lookup
LoadSolved(op) ==
  /\ op \in InFlight /\ op.pc = "load_solved"
  /\ LET solved == SelectSolved(op.pid)
         rest == ops (-) One(op)
     IN IF solved = 0
        THEN /\ ops' = rest (+) One([op EXCEPT !.pc = "load_insert"])
             /\ UNCHANGED <<screenVars, now>>
        ELSE IF op.live
        THEN /\ Render(DataToSteps(attempts[solved].steps), solved, FALSE, rest)
             /\ adopted' = "solved"
             /\ UNCHANGED <<mounted, problem, typedDraft, recognizedText,
                            recognizedImage, recognizing, validating, alert>>
        ELSE /\ ops' = rest
             /\ UNCHANGED <<screenVars, now>>
  /\ UNCHANGED <<storeVars, events, libVars>>

\* after the insert of a new attempt
LoadInsert(op) ==
  /\ op \in InFlight /\ op.pc = "load_insert"
  /\ attempts' = Append(attempts, NewAttempt(op.pid))
  /\ LET rest == ops (-) One(op)
     IN IF op.live
        THEN /\ Render(steps, Len(attempts) + 1, FALSE, rest)
             /\ adopted' = "new"
             /\ UNCHANGED <<mounted, problem, typedDraft, recognizedText,
                            recognizedImage, recognizing, validating, alert>>
        ELSE /\ ops' = rest
             /\ UNCHANGED <<screenVars, now>>
  /\ UNCHANGED <<activity, events, libVars>>

\* ------------------------------------------------------- llmValidator.ts
\* validateStep without its catch block
ValidateStepUncaught(resp) ==
  IF resp \in JudgeFailures
  THEN [threw |-> TRUE, outcome |-> "pending", feedback |-> ""]
  ELSE [threw |-> FALSE, outcome |-> resp, feedback |-> JudgeFeedback]

\* validateStep, given what the fetch of the judge endpoint came to: an answer
\* {outcome, feedback} is returned as it is, every failure is caught
ValidateStep(resp) ==
  IF resp \in JudgeFailures
  THEN [threw |-> FALSE, outcome |-> "neutral", feedback |-> FallbackFeedback]
  ELSE [threw |-> FALSE, outcome |-> resp, feedback |-> JudgeFeedback]

\* checker.ts checkNewLine (the LLM variant the screen imports)
CheckNewLine(resp) == ValidateStep(resp)

\* ---------------------------------------------------------- committing
\* the text field's onChangeText
TypeDraft(d) ==
  /\ mounted
  /\ d # typedDraft
  /\ typedDraft' = d
  /\ UNCHANGED <<storeVars, mounted, problem, steps, recognizedText,
                 recognizedImage, recognizing, validating, attemptId,
                 hasSavedRef, isLoadingRef, alert, adopted, ops, now, events,
                 libVars>>

PendingStep(text, image) ==
  [text |-> text, outcome |-> "pending", feedback |-> "", imageBase64 |-> image]

\* commitTyped up to its await of checkNewLine; its button and the field's
\* onSubmitEditing are never disabled
CommitTyped ==
  /\ mounted
  /\ events < MaxEvents
  /\ Trim(typedDraft) # <<>>
  /\ validating' = TRUE
  /\ ops' = ops (+) One(Op("validate_typed", TRUE, problem, 0,
                           <<PendingStep(Trim(typedDraft), NoImage)>>,
                           0, 0, FALSE, 0))
  /\ events' = events + 1
  /\ UNCHANGED <<storeVars, mounted, problem, steps, typedDraft, recognizedText,
                 recognizedImage, recognizing, attemptId, hasSavedRef,
                 isLoadingRef, alert, adopted, now, libVars>>

\* the Commit button is rendered while recognizedText is truthy and is
\* disabled while validating
CommitInkEnabled ==
  recognizedText # NoText /\ recognizedText[1] # <<>> /\ ~validating

\* commitInk up to its await of checkNewLine
CommitInk ==
  /\ mounted
  /\ events < MaxEvents
  /\ CommitInkEnabled
  /\ validating' = TRUE
  /\ ops' = ops (+) One(Op("validate_ink", TRUE, problem, 0,
                           <<PendingStep(recognizedText[1], recognizedImage)>>,
                           0, 0, FALSE, 0))
  /\ events' = events + 1
  /\ UNCHANGED <<storeVars, mounted, problem, steps, typedDraft, recognizedText,
                 recognizedImage, recognizing, attemptId, hasSavedRef,
                 isLoadingRef, alert, adopted, now, libVars>>

\* the step commitTyped and commitInk build from the validator's result
NewStep(pending, res) ==
  [pending EXCEPT !.outcome = res.outcome, !.feedback = res.feedback]

\* setSteps((prev) => [newStep, ...prev])
AppendStepFirst(prev, newStep) == <<newStep>> \o prev

\* setSteps((prev) => [...prev, newStep])
AppendStep(prev, newStep) == Append(prev, newStep)

\* the judge answers (or fails): the rest of commitTyped / commitInk up to the
\* first await of logStepToActivity, or the catch and finally blocks
Validated(op, resp) ==
  /\ op \in InFlight /\ op.pc \in {"validate_typed", "validate_ink"}
  /\ LET res == CheckNewLine(resp)
         rest == ops (-) One(op)
         logging == rest (+) One([op EXCEPT !.pc = "log_select"])
     IN IF res.threw
        THEN /\ ops' = rest
             /\ alert' = IF op.live THEN "Error" ELSE alert
             /\ validating' = IF op.live THEN FALSE ELSE validating
             /\ UNCHANGED <<steps, typedDraft, recognizedText, recognizedImage,
                            attemptId, hasSavedRef, isLoadingRef, now>>
        ELSE IF op.live
        THEN /\ Render(AppendStep(steps, NewStep(op.data[1], res)), attemptId,
                       isLoadingRef, logging)
             /\ typedDraft' = IF op.pc = "validate_typed" THEN <<>> ELSE typedDraft
             /\ recognizedText' =
                  IF op.pc = "validate_ink" THEN NoText ELSE recognizedText
             /\ recognizedImage' =
                  IF op.pc = "validate_ink" THEN NoImage ELSE recognizedImage
             /\ UNCHANGED <<alert, validating>>
        ELSE /\ ops' = logging
             /\ UNCHANGED <<steps, typedDraft, recognizedText, recognizedImage,
                            attemptId, hasSavedRef, isLoadingRef, now, alert,
                            validating>>
  /\ UNCHANGED <<storeVars, mounted, problem, recognizing, adopted, events,
                 libVars>>

\* logStepToActivity after its lookup of today's row
LogSelect(op) ==
  /\ op \in InFlight /\ op.pc = "log_select"
  /\ LET existingActivity == SelectActivity
     IN ops' = (ops (-) One(op)) (+)
               One([op EXCEPT !.pc = "log_write", !.row = existingActivity,
                              !.num = IF existingActivity = 0 THEN 0
                                      ELSE activity[existingActivity].steps_completed])
  /\ UNCHANGED <<storeVars, screenVars, now, events, libVars>>

\* the row logStepToActivity writes: the one it read with steps_completed + 1,
\* or a new one
LogWritten(op) ==
  IF op.row # 0
  THEN [activity EXCEPT ![op.row].steps_completed = op.num + 1]
  ELSE Append(activity, NewActivity(0, 1))

\* logStepToActivity after its update or insert, then the finally block of
\* the commit that awaited it
LogWrite(op) ==
  /\ op \in InFlight /\ op.pc = "log_write"
  /\ activity' = LogWritten(op)
  /\ ops' = ops (-) One(op)
  /\ validating' = IF op.live THEN FALSE ELSE validating
  /\ UNCHANGED <<attempts, mounted, problem, steps, typedDraft, recognizedText,
                 recognizedImage, recognizing, attemptId, hasSavedRef,
                 isLoadingRef, alert, adopted, now, events, libVars>>

\* ----------------------------------------------------------------- undo
\* prev.slice(1)
UndoStepsFirst(prev) == SubSeq(prev, 2, Len(prev))

\* setSteps((prev) => prev.slice(0, -1))
UndoSteps(prev) == SubSeq(prev, 1, Len(prev) - 1)

\* undo up to its lookup of today's row (the button is disabled and the
\* handler returns when there is no step)
Undo ==
  /\ mounted
  /\ events < MaxEvents
  /\ Len(steps) # 0
  /\ Render(UndoSteps(steps), attemptId, isLoadingRef,
            ops (+) One(Op("undo_select", TRUE, problem, 0, <<>>, 0, 0, FALSE, 0)))
  /\ events' = events + 1
  /\ UNCHANGED <<storeVars, mounted, problem, typedDraft, recognizedText,
                 recognizedImage, recognizing, validating, alert, adopted,
                 libVars>>

\* existingActivity alone
UndoDecrementsAnyRow(existingActivity) == existingActivity # 0

\* existingActivity && existingActivity.steps_completed > 0
UndoDecrements(existingActivity) ==
  existingActivity # 0 /\ activity[existingActivity].steps_completed > 0

\* undo after its lookup
UndoSelect(op) ==
  /\ op \in InFlight /\ op.pc = "undo_select"
  /\ LET existingActivity == SelectActivity
     IN ops' = IF UndoDecrements(existingActivity)
               THEN (ops (-) One(op)) (+)
                    One([op EXCEPT !.pc = "undo_write", !.row = existingActivity,
                           !.num = activity[existingActivity].steps_completed])
               ELSE ops (-) One(op)
  /\ UNCHANGED <<storeVars, screenVars, now, events, libVars>>

\* undo after its update
UndoWrite(op) ==
  /\ op \in InFlight /\ op.pc = "undo_write"
  /\ activity' = [activity EXCEPT ![op.row].steps_completed = op.num - 1]
  /\ ops' = ops (-) One(op)
  /\ UNCHANGED <<attempts, screenVars, now, events, libVars>>

\* --------------------------------------------------------- saveProgress
\* after the update of the attempt's steps, then the effect's finally
Save(op) ==
  /\ op \in InFlight /\ op.pc = "save"
  /\ attempts' = [attempts EXCEPT ![op.aid].steps = op.data]
  /\ ops' = ops (-) One(op)
  /\ hasSavedRef' = IF op.live THEN FALSE ELSE hasSavedRef
  /\ UNCHANGED <<activity, mounted, problem, steps, typedDraft, recognizedText,
                 recognizedImage, recognizing, validating, attemptId,
                 isLoadingRef, alert, adopted, now, events, libVars>>

\* --------------------------------------------------------- markAsSolved
\* after the update {is_solved: true, completed_at}
MarkUpdate(op) ==
  /\ op \in InFlight /\ op.pc = "mark_update"
  /\ attempts' = [attempts EXCEPT ![op.aid].is_solved = TRUE,
                                  ![op.aid].completed_at = op.stamp]
  /\ ops' = (ops (-) One(op)) (+) One([op EXCEPT !.pc = "mark_previous"])
  /\ UNCHANGED <<activity, screenVars, now, events, libVars>>

\* const isFirstTimeSolving = !previouslySolved
IsFirstTimeSolving(pid, aid) == ~SelectPreviouslySolved(pid, aid)

\* after the lookup of another solved attempt of the pair
MarkPrevious(op) ==
  /\ op \in InFlight /\ op.pc = "mark_previous"
  /\ ops' = (ops (-) One(op)) (+)
            One([op EXCEPT !.pc = "mark_activity",
                           !.first = IsFirstTimeSolving(op.pid, op.aid)])
  /\ UNCHANGED <<storeVars, screenVars, now, events, libVars>>

\* after the lookup of today's row: a row of a problem solved before is left
\* alone
MarkActivity(op) ==
  /\ op \in InFlight /\ op.pc = "mark_activity"
  /\ LET existingActivity == SelectActivity
     IN ops' = IF existingActivity # 0 /\ ~op.first
               THEN ops (-) One(op)
               ELSE (ops (-) One(op)) (+)
                    One([op EXCEPT !.pc = "mark_write", !.row = existingActivity,
                           !.num = IF existingActivity = 0 THEN 0
                                   ELSE activity[existingActivity].problems_solved])
  /\ UNCHANGED <<storeVars, screenVars, now, events, libVars>>

\* the row markAsSolved writes
MarkWritten(op) ==
  IF op.row # 0
  THEN [activity EXCEPT ![op.row].problems_solved = op.num + 1]
  ELSE Append(activity, NewActivity(IF op.first THEN 1 ELSE 0, 0))

\* after the update or insert of today's row
MarkWrite(op) ==
  /\ op \in InFlight /\ op.pc = "mark_write"
  /\ activity' = MarkWritten(op)
  /\ ops' = ops (-) One(op)
  /\ UNCHANGED <<attempts, screenVars, now, events, libVars>>

\* ---------------------------------------------------------- handwriting
\* handleRecognize up to its await of recognizeHandwriting
Recognize(img) ==
  /\ mounted
  /\ events < MaxEvents
  /\ recognizing' = TRUE
  /\ recognizedImage' = img
  /\ ops' = ops (+) One(Op("recognize", TRUE, problem, 0, <<PendingStep(<<>>, img)>>,
                           0, 0, FALSE, 0))
  /\ events' = events + 1
  /\ UNCHANGED <<storeVars, mounted, problem, steps, typedDraft, recognizedText,
                 validating, attemptId, hasSavedRef, isLoadingRef, alert,
                 adopted, now, libVars>>

\* the recognition answers with a text, or fails
Recognized(op, result) ==
  /\ op \in InFlight /\ op.pc = "recognize"
  /\ ops' = ops (-) One(op)
  /\ IF ~op.live
     THEN UNCHANGED <<recognizedText, recognizedImage, recognizing, alert>>
     ELSE /\ recognizing' = FALSE
          /\ IF ~result.ok
             THEN /\ alert' = "Recognition error"
                  /\ recognizedImage' = NoImage
                  /\ UNCHANGED recognizedText
             ELSE /\ recognizedText' = <<result.text>>
                  /\ UNCHANGED <<recognizedImage, alert>>
  /\ UNCHANGED <<storeVars, mounted, problem, steps, typedDraft, validating,
                 attemptId, hasSavedRef, isLoadingRef, adopted, now, events,
                 libVars>>

\* the Redraw button, rendered and enabled like the Commit button
CancelRecognition ==
  /\ mounted
  /\ recognizedText # NoText /\ recognizedText[1] # <<>> /\ ~validating
  /\ recognizedText' = NoText
  /\ recognizedImage' = NoImage
  /\ UNCHANGED <<storeVars, mounted, problem, steps, typedDraft, recognizing,
                 validating, attemptId, hasSavedRef, isLoadingRef, alert,
                 adopted, ops, now, events, libVars>>

\* ----------------------------------------------------------------- Next
Next ==
  \/ \E pid \in Problems : Mount(pid)
  \/ Unmount
  \/ \E op \in InFlight : LoadUnsolved(op)
  \/ \E op \in InFlight : LoadSolved(op)
  \/ \E op \in InFlight : LoadInsert(op)
  \/ \E d \in Drafts : TypeDraft(d)
  \/ CommitTyped
  \/ CommitInk
  \/ \E op \in InFlight : \E resp \in JudgeOutcomes \cup JudgeFailures :
       Validated(op, resp)
  \/ \E op \in InFlight : LogSelect(op)
  \/ \E op \in InFlight : LogWrite(op)
  \/ Undo
  \/ \E op \in InFlight : UndoSelect(op)
  \/ \E op \in InFlight : UndoWrite(op)
  \/ \E op \in InFlight : Save(op)
  \/ \E op \in InFlight : MarkUpdate(op)
  \/ \E op \in InFlight : MarkPrevious(op)
  \/ \E op \in InFlight : MarkActivity(op)
  \/ \E op \in InFlight : MarkWrite(op)
  \/ \E img \in Images : Recognize(img)
  \/ \E op \in InFlight : \E result \in RecognitionResults :
       Recognized(op, result)
  \/ CancelRecognition

Spec == Init /\ [][Next]_vars

\* ------------------------------------------------------- store failures
\* A store request that fails resolves to {data: null, error}: supabase-js
\* does not throw.  The handlers read error only after the insert of a new
\* attempt and after the update of saveProgress.
\* loadOrCreateAttempt: a failed lookup reads as "no row" and the next request
\* is issued; a failed insert throws into the catch, and finally clears
\* isLoadingRef
LoadFails(op) ==
  /\ op \in InFlight /\ op.pc \in {"load_unsolved", "load_solved", "load_insert"}
  /\ failures < MaxFailures
  /\ failures' = failures + 1
  /\ ops' = (ops (-) One(op)) (+)
            (CASE op.pc = "load_unsolved" -> One([op EXCEPT !.pc = "load_solved"])
               [] op.pc = "load_solved" -> One([op EXCEPT !.pc = "load_insert"])
               [] op.pc = "load_insert" -> EmptyBag)
  /\ isLoadingRef' = IF op.pc = "load_insert" /\ op.live THEN FALSE ELSE isLoadingRef
  /\ UNCHANGED <<storeVars, mounted, problem, steps, typedDraft, recognizedText,
                 recognizedImage, recognizing, validating, attemptId,
                 hasSavedRef, alert, adopted, now, events, finalVars,
                 checkerVars, recognizerVars, loaderVars, extraVars>>

\* saveProgress: the update fails, error is thrown into the catch; the
\* effect's finally clears hasSavedRef
SaveFails(op) ==
  /\ op \in InFlight /\ op.pc = "save"
  /\ failures < MaxFailures
  /\ failures' = failures + 1
  /\ ops' = ops (-) One(op)
  /\ hasSavedRef' = IF op.live THEN FALSE ELSE hasSavedRef
  /\ UNCHANGED <<storeVars, mounted, problem, steps, typedDraft, recognizedText,
                 recognizedImage, recognizing, validating, attemptId,
                 isLoadingRef, alert, adopted, now, events, finalVars,
                 checkerVars, recognizerVars, loaderVars, extraVars>>

\* logStepToActivity with a failed write throwing into the catch of the commit
LogFailsUncaught(op) ==
  /\ op \in InFlight /\ op.pc \in {"log_select", "log_write"}
  /\ failures < MaxFailures
  /\ failures' = failures + 1
  /\ ops' = ops (-) One(op)
  /\ validating' = IF op.live THEN FALSE ELSE validating
  /\ alert' = IF op.live THEN "Error" ELSE alert
  /\ UNCHANGED <<storeVars, mounted, problem, steps, typedDraft, recognizedText,
                 recognizedImage, recognizing, attemptId, hasSavedRef,
                 isLoadingRef, adopted, now, events, finalVars, checkerVars,
                 recognizerVars, loaderVars, extraVars>>

\* logStepToActivity: a failed lookup reads as "no row today" and a row is
\* inserted; a failed update or insert goes unnoticed, and the commit that
\* awaited it reaches its finally block
LogFails(op) ==
  /\ op \in InFlight /\ op.pc \in {"log_select", "log_write"}
  /\ failures < MaxFailures
  /\ failures' = failures + 1
  /\ ops' = (ops (-) One(op)) (+)
            (IF op.pc = "log_select"
             THEN One([op EXCEPT !.pc = "log_write", !.row = 0, !.num = 0])
             ELSE EmptyBag)
  /\ validating' = IF op.pc = "log_write" /\ op.live THEN FALSE ELSE validating
  /\ UNCHANGED <<storeVars, mounted, problem, steps, typedDraft, recognizedText,
                 recognizedImage, recognizing, attemptId, hasSavedRef,
                 isLoadingRef, alert, adopted, now, events, finalVars,
                 checkerVars, recognizerVars, loaderVars, extraVars>>

\* markAsSolved: a failed update goes unnoticed; a failed lookup of an earlier
\* solved attempt reads as "first time solving", a failed lookup of today's
\* row as "no row today"; a failed write goes unnoticed
MarkFails(op) ==
  /\ op \in InFlight
  /\ op.pc \in {"mark_update", "mark_previous", "mark_activity", "mark_write"}
  /\ failures < MaxFailures
  /\ failures' = failures + 1
  /\ ops' = (ops (-) One(op)) (+)
            (CASE op.pc = "mark_update" -> One([op EXCEPT !.pc = "mark_previous"])
               [] op.pc = "mark_previous" ->
                    One([op EXCEPT !.pc = "mark_activity", !.first = TRUE])
               [] op.pc = "mark_activity" ->
                    One([op EXCEPT !.pc = "mark_write", !.row = 0, !.num = 0])
               [] op.pc = "mark_write" -> EmptyBag)
  /\ UNCHANGED <<storeVars, screenVars, now, events, finalVars, checkerVars,
                 recognizerVars, loaderVars, extraVars>>

\* undo: a failed lookup reads as "no row today" and nothing is decremented; a
\* failed update goes unnoticed
UndoFails(op) ==
  /\ op \in InFlight /\ op.pc \in {"undo_select", "undo_write"}
  /\ failures < MaxFailures
  /\ failures' = failures + 1
  /\ ops' = ops (-) One(op)
  /\ UNCHANGED <<storeVars, screenVars, now, events, finalVars, checkerVars,
                 recognizerVars, loaderVars, extraVars>>

NextFail ==
  \/ Next
  \/ \E op \in InFlight : LoadFails(op)
  \/ \E op \in InFlight : SaveFails(op)
  \/ \E op \in InFlight : LogFails(op)
  \/ \E op \in InFlight : MarkFails(op)
  \/ \E op \in InFlight : UndoFails(op)

SpecFail == Init /\ [][NextFail]_vars

\* ------------------------------------------------------- a returning user
\* the attempt an earlier session of the day before left in the store: two
\* judged steps of problem p1, saved by saveProgress, not solved
StoredSession ==
  <<[problem_id |-> "p1",
     steps |-> StepsToData(
       <<NewStep(PendingStep(<<"x">>, NoImage), ValidateStep("incorrect")),
         NewStep(PendingStep(<<"y">>, NoImage), ValidateStep("neutral"))>>),
     is_solved |-> FALSE, completed_at |-> 0]>>

InitReturning ==
  /\ attempts = StoredSession
  /\ activity = <<>>
  /\ mounted = FALSE
  /\ problem = "p1"
  /\ steps = <<>>
  /\ typedDraft = <<>>
  /\ recognizedText = NoText
  /\ recognizedImage = NoImage
  /\ recognizing = FALSE
  /\ validating = FALSE
  /\ attemptId = 0
  /\ hasSavedRef = FALSE
  /\ isLoadingRef = FALSE
  /\ alert = "none"
  /\ ops = EmptyBag
  /\ now = 1
  /\ adopted = "none"
  /\ events = 0
  /\ fcAnswer = <<>>
  /\ fcSteps = <<>>
  /\ fcResult = <<>>
  /\ CheckerIdle
  /\ RecognizerIdle
  /\ failures = 0
  /\ LoaderIdle
  /\ ExtraIdle

SpecReturning == InitReturning /\ [][Next]_vars

\* ------------------------------------------------------------ final check
\* Texts of the final check are sequences of characters; toLowerCase folds
\* the capitals of the model's alphabet and leaves the others as they are.
Chars == {"a", "A", "4"}

Lower(c) ==
  CASE c = "A" -> "a" [] c = "H" -> "h" [] c = "X" -> "x" [] OTHER -> c

\* String.prototype.toLowerCase
ToLowerCase(t) == [i \in 1..Len(t) |-> Lower(t[i])]

\* canonical answers and step texts: a committed step's text is never empty
Texts == UNION {[1..n -> Chars] : n \in 1..MaxText}

\* the step lists the final check is run on: none, one or two steps
FinalStepLists ==
  {<<>>} \cup {<<PendingStep(t, NoImage)>> : t \in Texts}
         \cup {<<PendingStep(t, NoImage), PendingStep(u, NoImage)>> :
                 t \in Texts, u \in Texts}

StartsWith(hay, needle) ==
  /\ Len(needle) <= Len(hay)
  /\ SubSeq(hay, 1, Len(needle)) = needle

\* String.prototype.includes: the search string is looked for at every
\* position from the first on
RECURSIVE Includes(_, _)
Includes(hay, needle) ==
  IF StartsWith(hay, needle) THEN TRUE
  ELSE IF hay = <<>> THEN FALSE
  ELSE Includes(Tail(hay), needle)

RECURSIVE ConcatTexts(_)
ConcatTexts(ss) ==
  IF ss = <<>> THEN <<>> ELSE Head(ss).text \o ConcatTexts(Tail(ss))

\* the canonical answer looked for, as it is written, in the step texts put
\* one after the other
HasAnswerConcatenated(answer, ss) == Includes(ConcatTexts(ss), answer)

\* steps.some(s => s.text.toLowerCase().includes(
\*                   problem.canonicalAnswer.toLowerCase()))
RECURSIVE HasAnswer(_, _)
HasAnswer(answer, ss) ==
  IF ss = <<>> THEN FALSE
  ELSE IF Includes(ToLowerCase(Head(ss).text), ToLowerCase(answer)) THEN TRUE
  ELSE HasAnswer(answer, Tail(ss))

FallbackSolved == "Solution appears correct (fallback check)."
FallbackUnsolved == "Solution incomplete or incorrect (fallback check)."

\* what the fetch of the /final endpoint came to: a parsed answer of the
\* judge, or one of the failures
FinalResponses ==
  {[status |-> "ok", isSolved |-> b, feedback |-> JudgeFeedback] :
     b \in BOOLEAN}
  \cup {[status |-> f, isSolved |-> FALSE, feedback |-> ""] :
          f \in JudgeFailures}

FinalFailures == {r \in FinalResponses : r.status \in JudgeFailures}

\* checkIfSolved: the judge's answer is returned as it is; every failure is
\* caught and answered by the fallback
CheckIfSolved(answer, ss, resp) ==
  IF resp \in FinalFailures
  THEN [threw |-> FALSE,
        isSolved |-> HasAnswer(answer, ss),
        feedback |-> IF HasAnswer(answer, ss) THEN FallbackSolved
                     ELSE FallbackUnsolved]
  ELSE [threw |-> FALSE, isSolved |-> resp.isSolved, feedback |-> resp.feedback]

\* a problem with its canonical answer and a list of steps
InitFinal ==
  /\ attempts = <<>>
  /\ activity = <<>>
  /\ mounted = TRUE
  /\ problem = "p1"
  /\ steps = <<>>
  /\ typedDraft = <<>>
  /\ recognizedText = NoText
  /\ recognizedImage = NoImage
  /\ recognizing = FALSE
  /\ validating = FALSE
  /\ attemptId = 0
  /\ hasSavedRef = FALSE
  /\ isLoadingRef = FALSE
  /\ alert = "none"
  /\ ops = EmptyBag
  /\ now = 1
  /\ adopted = "none"
  /\ events = 0
  /\ fcAnswer \in Texts
  /\ fcSteps \in FinalStepLists
  /\ fcResult = <<>>
  /\ CheckerIdle
  /\ RecognizerIdle
  /\ failures = 0
  /\ LoaderIdle
  /\ ExtraIdle

\* one call of checkIfSolved(problem, steps)
FinalCheck(resp) ==
  /\ fcResult' = <<CheckIfSolved(fcAnswer, fcSteps, resp)>>
  /\ UNCHANGED <<storeVars, screenVars, ops, now, events, fcAnswer, fcSteps,
                 checkerVars, recognizerVars, faultVars,
                 loaderVars, extraVars>>

NextFinal == \E resp \in FinalResponses : FinalCheck(resp)

SpecFinal == InitFinal /\ [][NextFinal]_vars

\* ------------------------------------------------- regular expressions
\* A regular expression is a tree: <<"chr", S>> one character of the set S,
\* <<"seq", rs>> the expressions rs one after the other, <<"alt", rs>> one of
\* rs, <<"star", r>> r any number of times, <<"nla", r>> the negative
\* lookahead (?!r), and the assertions <<"wordb">> \b, <<"bol">> ^, <<"eol">> $.
Digits == {"0", "1", "2", "3", "4", "5", "6", "7", "8", "9"}
Letters ==
  {"a", "b", "c", "d", "e", "f", "g", "h", "i", "j", "k", "l", "m", "n", "o",
   "p", "q", "r", "s", "t", "u", "v", "w", "x", "y", "z", "A", "H", "X"}

\* \w, \s and \d
IsWordChar(c) == c \in Letters \cup Digits \cup {"_"}
Chr(c) == <<"chr", {c}>>
Lit(s) == <<"seq", [i \in 1..Len(s) |-> Chr(s[i])]>>
Cat(rs) == <<"seq", rs>>
Alt(rs) == <<"alt", rs>>
Opt(r) == <<"alt", <<r, <<"seq", <<>>>>>>>>
Plus(r) == <<"seq", <<r, <<"star", r>>>>>>
Ws == <<"star", <<"chr", {" ", "\t"}>>>>
Digit == <<"chr", Digits>>
WordB == <<"wordb">>

\* \b holds at position p of t (p characters consumed) when exactly one of the
\* characters before and after p is a word character
AtWordBoundary(t, p) ==
  (p > 0 /\ IsWordChar(t[p])) # (p < Len(t) /\ IsWordChar(t[p + 1]))

\* the positions a match of re can end at when it starts at one of P
RECURSIVE Ends(_, _, _), EndsSeq(_, _, _), EndsStar(_, _, _)
Ends(re, t, P) ==
  CASE re[1] = "chr" -> {p + 1 : p \in {q \in P : q < Len(t) /\ t[q + 1] \in re[2]}}
    [] re[1] = "seq" -> EndsSeq(re[2], t, P)
    [] re[1] = "alt" -> UNION {Ends(re[2][i], t, P) : i \in 1..Len(re[2])}
    [] re[1] = "star" -> EndsStar(re[2], t, P)
    [] re[1] = "nla" -> {p \in P : Ends(re[2], t, {p}) = {}}
    [] re[1] = "wordb" -> {p \in P : AtWordBoundary(t, p)}
    [] re[1] = "bol" -> {p \in P : p = 0}
    [] re[1] = "eol" -> {p \in P : p = Len(t)}

EndsSeq(rs, t, P) ==
  IF rs = <<>> \/ P = {} THEN P ELSE EndsSeq(Tail(rs), t, Ends(Head(rs), t, P))

EndsStar(r, t, P) ==
  LET Q == P \cup Ends(r, t, P)
  IN IF Q = P THEN P ELSE EndsStar(r, t, Q)

\* RegExp.prototype.test: a match starting anywhere
Test(re, t) == Ends(re, t, 0..Len(t)) # {}

\* --------------------------------------------------- the built-in checker
\* const normalize = (s) => s.replace(/\s+/g, " ").trim()
RECURSIVE CollapseSpaces(_)
CollapseSpaces(s) ==
  IF s = <<>> THEN <<>>
  ELSE IF IsSpace(Head(s)) THEN <<" ">> \o CollapseSpaces(TrimLeft(Tail(s)))
  ELSE <<Head(s)>> \o CollapseSpaces(Tail(s))

normalize(s) == Trim(CollapseSpaces(s))

\* 60\s*-\s*15\s*=\s*
SixtyMinusFifteenIs ==
  Cat(<<Lit(<<"6", "0">>), Ws, Chr("-"), Ws, Lit(<<"1", "5">>), Ws, Chr("="), Ws>>)

\* /\bx\s*=\s*60\b/
eq60 == Cat(<<WordB, Chr("x"), Ws, Chr("="), Ws, Lit(<<"6", "0">>), WordB>>)

\* /\bx\s*\/?\s*10\s*=\s*6\b|\bx\s*divided by\s*10\s*is\s*6\b/
divEq ==
  Alt(<<Cat(<<WordB, Chr("x"), Ws, Opt(Chr("/")), Ws, Lit(<<"1", "0">>), Ws, Chr("="),
              Ws, Chr("6"), WordB>>),
        Cat(<<WordB, Chr("x"), Ws, Lit(<<"d", "i", "v", "i", "d", "e", "d", " ", "b", "y">>), Ws, Lit(<<"1", "0">>), Ws,
              Lit(<<"i", "s">>), Ws, Chr("6"), WordB>>)>>)

\* /^45$/
final45Alone == Cat(<<<<"bol">>, Lit(<<"4", "5">>), <<"eol">>>>)

\* /(^|\b)(45)(\b|$)/
final45 == Cat(<<Alt(<<<<"bol">>, WordB>>), Lit(<<"4", "5">>), Alt(<<WordB, <<"eol">>>>)>>)

\* /(60\s*-\s*15\s*=\s*45)|(result\s*=\s*45)/
compute ==
  Alt(<<Cat(<<SixtyMinusFifteenIs, Lit(<<"4", "5">>)>>),
        Cat(<<Lit(<<"r", "e", "s", "u", "l", "t">>), Ws, Chr("="), Ws, Lit(<<"4", "5">>)>>)>>)

\* /(60\s*-\s*15\s*=\s*(?!45)\d+)/
wrongCompute == Cat(<<SixtyMinusFifteenIs, <<"nla", Lit(<<"4", "5">>)>>, Plus(Digit)>>)

\* /(60\s*-\s*15\s*=\s*45)|(^|\b)(45)(\b|$)/
finalRegex == Alt(<<Cat(<<SixtyMinusFifteenIs, Lit(<<"4", "5">>)>>), final45>>)

\* the feedback texts, their typographic minus, dash and apostrophe in ASCII
FeedbackWrong == "Check the subtraction: 60 - 15 should be 45."
FeedbackDivEq == "Good start: you defined the equation x/10 = 6."
FeedbackEq60 == "Nice-solved for x correctly (x = 60)."
FeedbackFinal == "That's the result Yoongi got: 45."
FeedbackNeutral == "Try writing either x/10 = 6, then x = 60, then 60 - 15 = 45."

\* checkNewLine leaving a line it does not recognise as it was given, pending
checkNewLineLeavesPending(prior, newLine) ==
  LET t == ToLowerCase(normalize(newLine))
  IN IF Test(wrongCompute, t)
     THEN [outcome |-> "incorrect", feedback |-> FeedbackWrong]
     ELSE IF Test(divEq, t) \/ Test(eq60, t) \/ Test(compute, t) \/ Test(final45, t)
     THEN [outcome |-> "correct", feedback |-> FeedbackFinal]
     ELSE [outcome |-> "pending", feedback |-> ""]

\* checker.ts checkNewLine (the built-in variant); prior is not read
checkNewLine(prior, newLine) ==
  LET t == ToLowerCase(normalize(newLine))
  IN IF Test(wrongCompute, t)
     THEN [outcome |-> "incorrect", feedback |-> FeedbackWrong]
     ELSE IF Test(divEq, t)
     THEN [outcome |-> "correct", feedback |-> FeedbackDivEq]
     ELSE IF Test(eq60, t)
     THEN [outcome |-> "correct", feedback |-> FeedbackEq60]
     ELSE IF Test(compute, t) \/ Test(final45, t)
     THEN [outcome |-> "correct", feedback |-> FeedbackFinal]
     ELSE [outcome |-> "neutral", feedback |-> FeedbackNeutral]

\* steps.some((s) => finalRegex.test(normalize(s.text)))
RECURSIVE isSolved(_)
isSolved(ss) ==
  IF ss = <<>> THEN FALSE
  ELSE IF Test(finalRegex, normalize(Head(ss).text)) THEN TRUE
  ELSE isSolved(Tail(ss))

FinalCorrect == "Correct. Final result: 45."
FinalNotYet == "Not quite yet. Aim to compute 60 - 15 and state the result."

finalCheck(ss) ==
  IF isSolved(ss) THEN [correct |-> TRUE, feedback |-> FinalCorrect]
  ELSE [correct |-> FALSE, feedback |-> FinalNotYet]

\* the lines given to checkNewLine: a beginning followed by an end
HcLefts ==
  {<<>>, <<"6", "0", " ", "-", " ", "1", "5", " ", "=", " ">>, <<" ", "6", "0", "-", "1", "5", "=">>, <<"x", " ", "=", " ">>, <<"x", "/", "1", "0", " ", "=", " ">>, <<"X", " ", " ", "=", "\t">>, <<"h", "e", "l", "l", "o", " ">>,
   <<"r", "e", "s", "u", "l", "t", " ", "=", " ">>, <<"x", " ", "=", " ", "6", "0", ",", " ", "6", "0", " ", "-", " ", "1", "5", " ", "=", " ">>, <<"x", " ", "d", "i", "v", "i", "d", "e", "d", " ", "b", "y", " ", "1", "0", " ", "i", "s", " ">>, <<"1">>}
HcRights == {<<>>, <<"4", "5">>, <<"4", "0">>, <<"4", "5", "0">>, <<"6">>, <<"6", "0">>, <<"4", "5", " ", "o", "k">>}
HcLines == {l \o r : l \in HcLefts, r \in HcRights}

\* the step lists given to the checker: none, one or two steps, each with a
\* text and the outcome it was committed with
HcStepTexts == {<<"x", " ", "=", " ", "6", "0">>, <<"1", "4", "5">>, <<"6", "0", " ", "-", " ", "1", "5", " ", "=", " ", "4", "5">>, <<"s", "o", " ", "4", "5", ".">>}
HcSteps ==
  {[text |-> t, outcome |-> o, feedback |-> "", imageBase64 |-> NoImage] :
     t \in HcStepTexts, o \in {"correct", "incorrect"}}
HcStepLists ==
  {<<>>} \cup {<<s>> : s \in HcSteps} \cup {<<s, u>> : s \in HcSteps, u \in HcSteps}

\* a step list and a new line for the built-in checker
InitChecker ==
  /\ attempts = <<>>
  /\ activity = <<>>
  /\ mounted = FALSE
  /\ problem = "p1"
  /\ steps = <<>>
  /\ typedDraft = <<>>
  /\ recognizedText = NoText
  /\ recognizedImage = NoImage
  /\ recognizing = FALSE
  /\ validating = FALSE
  /\ attemptId = 0
  /\ hasSavedRef = FALSE
  /\ isLoadingRef = FALSE
  /\ alert = "none"
  /\ ops = EmptyBag
  /\ now = 1
  /\ adopted = "none"
  /\ events = 0
  /\ fcAnswer = <<>>
  /\ fcSteps = <<>>
  /\ fcResult = <<>>
  /\ hcSteps \in HcStepLists
  /\ hcLine \in HcLines
  /\ hcResult = <<>>
  /\ hcFinal = <<>>
  /\ RecognizerIdle
  /\ failures = 0
  /\ LoaderIdle
  /\ ExtraIdle

\* one call of checkNewLine(problem, steps, line)
HcCheck ==
  /\ hcResult = <<>>
  /\ hcResult' = <<checkNewLine(hcSteps, hcLine)>>
  /\ UNCHANGED <<storeVars, screenVars, ops, now, events, finalVars,
                 recognizerVars, faultVars, loaderVars,
                 extraVars, hcSteps,
                 hcLine, hcFinal>>

\* one call of finalCheck(problem, steps)
HcFinalCheck ==
  /\ hcFinal = <<>>
  /\ hcFinal' = <<finalCheck(hcSteps)>>
  /\ UNCHANGED <<storeVars, screenVars, ops, now, events, finalVars,
                 recognizerVars, faultVars, loaderVars,
                 extraVars, hcSteps,
                 hcLine, hcResult>>

\* the steps of the list are appended to it once more
HcReappend ==
  /\ hcSteps \in HcStepLists \ {<<>>}
  /\ hcSteps' = hcSteps \o hcSteps
  /\ UNCHANGED <<storeVars, screenVars, ops, now, events, finalVars,
                 recognizerVars, faultVars, loaderVars,
                 extraVars, hcLine,
                 hcResult, hcFinal>>

NextChecker == HcCheck \/ HcFinalCheck \/ HcReappend

SpecChecker == InitChecker /\ [][NextChecker]_vars

\* ------------------------------------------------- recognizeHandwriting
\* calls of recognizeHandwriting, one after the other
InitRecognize ==
  /\ attempts = <<>>
  /\ activity = <<>>
  /\ mounted = FALSE
  /\ problem = "p1"
  /\ steps = <<>>
  /\ typedDraft = <<>>
  /\ recognizedText = NoText
  /\ recognizedImage = NoImage
  /\ recognizing = FALSE
  /\ validating = FALSE
  /\ attemptId = 0
  /\ hasSavedRef = FALSE
  /\ isLoadingRef = FALSE
  /\ alert = "none"
  /\ ops = EmptyBag
  /\ now = 1
  /\ adopted = "none"
  /\ events = 0
  /\ fcAnswer = <<>>
  /\ fcSteps = <<>>
  /\ fcResult = <<>>
  /\ CheckerIdle
  /\ RecognizerIdle
  /\ failures = 0
  /\ LoaderIdle
  /\ ExtraIdle

\* a call up to its await of fetch(PROXY, {method: 'POST', ...})
RhCall ==
  /\ ~rhAwaiting
  /\ Len(rhReturned) < MaxCalls
  /\ rhAwaiting' = TRUE
  /\ rhRequests' = rhRequests + 1
  /\ UNCHANGED <<storeVars, screenVars, ops, now, events, finalVars,
                 checkerVars, faultVars, loaderVars,
                 extraVars, rhResponse, rhReturned>>

\* the rest of the call, once the fetch has come to resp
RhAnswer(resp) ==
  /\ rhAwaiting
  /\ rhAwaiting' = FALSE
  /\ rhResponse' = <<resp>>
  /\ rhReturned' = Append(rhReturned, RecognizeHandwriting(resp))
  /\ UNCHANGED <<storeVars, screenVars, ops, now, events, finalVars,
                 checkerVars, faultVars, loaderVars,
                 extraVars, rhRequests>>

NextRecognize == RhCall \/ \E resp \in RecognitionResponses : RhAnswer(resp)

SpecRecognize == InitRecognize /\ [][NextRecognize]_vars

\* ------------------------------------------------------- problemsData.ts
\* the lines a bundled file can have: two problems and a line that is not JSON
GoodLines == {"{\"id\":1}", "{\"id\":2}"}
DataLines == GoodLines \cup {"{"}
DataFiles ==
  {<<>>} \cup {<<l>> : l \in DataLines} \cup {<<l, m>> : l \in DataLines, m \in DataLines}

\* JSON.parse(line) of a line that is JSON
JsonParse(line) == IF line = "{\"id\":1}" THEN [id |-> 1] ELSE [id |-> 2]

\* fileContent.trim().split('\n') gives one empty line for an empty file, and
\* JSON.parse throws on a line that is not JSON
ParseThrows(file) == file = <<>> \/ \E i \in 1..Len(file) : file[i] \notin GoodLines

\* lines.map(line => JSON.parse(line))
ParseLines(file) == [i \in 1..Len(file) |-> JsonParse(file[i])]

\* what the three awaits of the load come to
LoadOutcomes == {"download failed", "no localUri", "fetch failed", "read"}

\* the list the load caches and resolves its promise with
Loaded(outcome) ==
  IF outcome = "read" /\ ~ParseThrows(dataFile) THEN ParseLines(dataFile) ELSE <<>>

\* cachedProblems !== null && cachedProblems.length > 0 && hasInitialized
ReturnsCachedNonEmpty ==
  cachedProblems # <<>> /\ cachedProblems[1] # <<>> /\ hasInitialized

\* cachedProblems && hasInitialized: an empty array is truthy
ReturnsCached == cachedProblems # <<>> /\ hasInitialized

InitLoader ==
  /\ attempts = <<>>
  /\ activity = <<>>
  /\ mounted = FALSE
  /\ problem = "p1"
  /\ steps = <<>>
  /\ typedDraft = <<>>
  /\ recognizedText = NoText
  /\ recognizedImage = NoImage
  /\ recognizing = FALSE
  /\ validating = FALSE
  /\ attemptId = 0
  /\ hasSavedRef = FALSE
  /\ isLoadingRef = FALSE
  /\ alert = "none"
  /\ ops = EmptyBag
  /\ now = 1
  /\ adopted = "none"
  /\ events = 0
  /\ fcAnswer = <<>>
  /\ fcSteps = <<>>
  /\ fcResult = <<>>
  /\ CheckerIdle
  /\ RecognizerIdle
  /\ failures = 0
  /\ dataFile \in DataFiles
  /\ cachedProblems = <<>>
  /\ loadingPromise = 0
  /\ hasInitialized = FALSE
  /\ promises = <<>>
  /\ reads = 0
  /\ returned = <<>>
  /\ ExtraIdle

\* a call of loadProblems: it returns the cached list, or the promise of the
\* load in flight, or starts a load.  The load runs up to its first await, or
\* throws before it (Asset.fromModule): then the catch caches [] and finally
\* clears loadingPromise before the call assigns the settled promise to it
LoadProblems(throwsAtOnce) ==
  /\ Len(returned) < MaxCalls
  /\ IF ReturnsCached
     THEN /\ returned' = Append(returned, [promise |-> 0, value |-> cachedProblems])
          /\ UNCHANGED <<cachedProblems, loadingPromise, hasInitialized,
                         promises, reads>>
     ELSE IF loadingPromise # 0
     THEN /\ returned' = Append(returned, [promise |-> loadingPromise, value |-> <<>>])
          /\ UNCHANGED <<cachedProblems, loadingPromise, hasInitialized,
                         promises, reads>>
     ELSE /\ hasInitialized' = TRUE
          /\ reads' = reads + 1
          /\ loadingPromise' = Len(promises) + 1
          /\ promises' = Append(promises, IF throwsAtOnce THEN <<<<>>>> ELSE <<>>)
          /\ cachedProblems' = IF throwsAtOnce THEN <<<<>>>> ELSE cachedProblems
          /\ returned' = Append(returned, [promise |-> Len(promises) + 1, value |-> <<>>])
  /\ UNCHANGED <<storeVars, screenVars, ops, now, events, finalVars,
                 checkerVars, recognizerVars, faultVars, extraVars,
                 dataFile>>

\* the rest of the load in flight: the list is cached, or [] in the catch,
\* the promise resolves with it and finally clears loadingPromise
LoadSettles(outcome) ==
  /\ loadingPromise # 0 /\ promises[loadingPromise] = <<>>
  /\ cachedProblems' = <<Loaded(outcome)>>
  /\ promises' = [promises EXCEPT ![loadingPromise] = <<Loaded(outcome)>>]
  /\ loadingPromise' = 0
  /\ UNCHANGED <<storeVars, screenVars, ops, now, events, finalVars,
                 checkerVars, recognizerVars, faultVars, extraVars,
                 dataFile,
                 hasInitialized, reads, returned>>

NextLoader ==
  \/ \E throwsAtOnce \in BOOLEAN : LoadProblems(throwsAtOnce)
  \/ \E outcome \in LoadOutcomes : LoadSettles(outcome)

SpecLoader == InitLoader /\ [][NextLoader]_vars

\* ------------------------------------------------------ paginateProblems
\* Array.prototype.slice(start, end) on the 0-based positions of s: a negative
\* index counts from the end, and both are clamped to the array
Slice(s, start, end) ==
  LET n == Len(s)
      from == IF start < 0 THEN (IF n + start < 0 THEN 0 ELSE n + start)
              ELSE (IF start > n THEN n ELSE start)
      to == IF end < 0 THEN (IF n + end < 0 THEN 0 ELSE n + end)
            ELSE (IF end > n THEN n ELSE end)
  IN SubSeq(s, from + 1, to)

\* paginateProblems with the last element of the page left out
paginateProblemsShort(problems, page, pageSize) ==
  Slice(problems, page * pageSize, page * pageSize + pageSize - 1)

\* problemsData.ts paginateProblems
paginateProblems(problems, page, pageSize) ==
  LET start == page * pageSize
      end == start + pageSize
  IN Slice(problems, start, end)

\* the lists given to paginateProblems: problems 1 .. n
PagerLists == {[i \in 1..n |-> i] : n \in 0..MaxProblems}

InitPager ==
  /\ attempts = <<>>
  /\ activity = <<>>
  /\ mounted = FALSE
  /\ problem = "p1"
  /\ steps = <<>>
  /\ typedDraft = <<>>
  /\ recognizedText = NoText
  /\ recognizedImage = NoImage
  /\ recognizing = FALSE
  /\ validating = FALSE
  /\ attemptId = 0
  /\ hasSavedRef = FALSE
  /\ isLoadingRef = FALSE
  /\ alert = "none"
  /\ ops = EmptyBag
  /\ now = 1
  /\ adopted = "none"
  /\ events = 0
  /\ fcAnswer = <<>>
  /\ fcSteps = <<>>
  /\ fcResult = <<>>
  /\ CheckerIdle
  /\ RecognizerIdle
  /\ failures = 0
  /\ LoaderIdle
  /\ pgList \in PagerLists
  /\ pgPage \in (0 - MaxPage)..MaxPage
  /\ pgSize \in 1..MaxPageSize
  /\ pgResult = <<>>
  /\ LevelIdle
  /\ MoreIdle

\* one call of paginateProblems(list, page, pageSize)
Paginate ==
  /\ pgResult = <<>>
  /\ pgResult' = <<paginateProblems(pgList, pgPage, pgSize)>>
  /\ UNCHANGED <<appVars, pgList, pgPage, pgSize, levelVars, moreVars>>

NextPager == Paginate

SpecPager == InitPager /\ [][NextPager]_vars

\* ------------------------------------------------------ getActivityLevel
\* activityData[dateStr]: undefined (<<>>) for a day without a row, or the
\* day's {problemsSolved, stepsCompleted}
DayActivities ==
  {<<>>} \cup {<<[problemsSolved |-> p, stepsCompleted |-> s]>> :
                 p \in 0..MaxSolved, s \in 0..MaxStepsDay}

\* getActivityLevel counting a day with steps and no problem solved as active
getActivityLevelAnyStep(entry) ==
  IF entry = <<>> THEN 0
  ELSE IF entry[1].problemsSolved = 0 /\ entry[1].stepsCompleted = 0 THEN 0
  ELSE IF entry[1].problemsSolved >= 5 THEN 4
  ELSE IF entry[1].problemsSolved >= 3 THEN 3
  ELSE IF entry[1].problemsSolved >= 2 THEN 2
  ELSE 1

\* ProfileScreen.tsx getActivityLevel, given activityData[dateStr]
getActivityLevel(entry) ==
  IF entry = <<>> \/ entry[1].problemsSolved = 0 THEN 0
  ELSE IF entry[1].problemsSolved >= 5 THEN 4
  ELSE IF entry[1].problemsSolved >= 3 THEN 3
  ELSE IF entry[1].problemsSolved >= 2 THEN 2
  ELSE 1

InitLevel ==
  /\ attempts = <<>>
  /\ activity = <<>>
  /\ mounted = FALSE
  /\ problem = "p1"
  /\ steps = <<>>
  /\ typedDraft = <<>>
  /\ recognizedText = NoText
  /\ recognizedImage = NoImage
  /\ recognizing = FALSE
  /\ validating = FALSE
  /\ attemptId = 0
  /\ hasSavedRef = FALSE
  /\ isLoadingRef = FALSE
  /\ alert = "none"
  /\ ops = EmptyBag
  /\ now = 1
  /\ adopted = "none"
  /\ events = 0
  /\ fcAnswer = <<>>
  /\ fcSteps = <<>>
  /\ fcResult = <<>>
  /\ CheckerIdle
  /\ RecognizerIdle
  /\ failures = 0
  /\ LoaderIdle
  /\ PagerIdle
  /\ MoreIdle
  /\ lvActivity \in DayActivities
  /\ lvLevel = <<>>

\* the calendar renders the day
RenderDay ==
  /\ lvLevel = <<>>
  /\ lvLevel' = <<getActivityLevel(lvActivity)>>
  /\ UNCHANGED <<appVars, pagerVars, lvActivity, moreVars>>

NextLevel == RenderDay

SpecLevel == InitLevel /\ [][NextLevel]_vars

\* ------------------------------------------------- the handwriting flow
\* two snapshots of the canvas, and the text the recognition reads off each
InkImages == {"png1", "png2"}
TextOf(img) == IF img = "png1" THEN <<"y">> ELSE <<"z">>

\* the solve screen is open on p1 and its load has created the attempt
InitInk ==
  /\ attempts = <<NewAttempt("p1")>>
  /\ activity = <<>>
  /\ mounted = TRUE
  /\ problem = "p1"
  /\ steps = <<>>
  /\ typedDraft = <<>>
  /\ recognizedText = NoText
  /\ recognizedImage = NoImage
  /\ recognizing = FALSE
  /\ validating = FALSE
  /\ attemptId = 1
  /\ hasSavedRef = FALSE
  /\ isLoadingRef = FALSE
  /\ alert = "none"
  /\ ops = EmptyBag
  /\ now = 1
  /\ adopted = "new"
  /\ events = 0
  /\ fcAnswer = <<>>
  /\ fcSteps = <<>>
  /\ fcResult = <<>>
  /\ CheckerIdle
  /\ RecognizerIdle
  /\ failures = 0
  /\ LoaderIdle
  /\ ExtraIdle

\* recognizeHandwriting(imageB64) settles: the text of the image the call was
\* given, or a thrown error
RecognitionSettles(op, ok) ==
  /\ op.pc = "recognize"
  /\ Recognized(op, [ok |-> ok,
                     text |-> IF ok THEN TextOf(op.data[1].imageBase64)
                              ELSE <<>>])

NextInk ==
  \/ \E img \in InkImages : Recognize(img)
  \/ \E op \in InFlight : \E ok \in BOOLEAN : RecognitionSettles(op, ok)
  \/ CancelRecognition
  \/ CommitInk
  \/ \E op \in InFlight : \E resp \in JudgeOutcomes \cup JudgeFailures :
       Validated(op, resp)
  \/ \E op \in InFlight : LogSelect(op)
  \/ \E op \in InFlight : LogWrite(op)
  \/ \E op \in InFlight : Save(op)
  \/ \E op \in InFlight : MarkUpdate(op)
  \/ \E op \in InFlight : MarkPrevious(op)
  \/ \E op \in InFlight : MarkActivity(op)
  \/ \E op \in InFlight : MarkWrite(op)

SpecInk == InitInk /\ [][NextInk]_vars

\* ---------------------------------------------------- ProblemsListScreen
PAGE_SIZE == 20
NumProblems == 45
MaxQuery == 3

\* the data set: every tenth question reads "x", the others "A"; the first two
\* problems carry the skill tag "ax"
LoadedProblems ==
  [i \in 1..NumProblems |->
     [id |-> i,
      question |-> IF i % 10 = 0 THEN <<"x">> ELSE <<"A">>,
      skill_tags |-> IF i <= 2 THEN <<<<"a", "x">>>> ELSE <<>>]]

\* the keys of the search box
Keys == {"a", "A", "x", ",", " "}

\* String.prototype.split(',')
RECURSIVE SplitComma(_)
SplitComma(s) ==
  IF \A i \in 1..Len(s) : s[i] # ","
  THEN <<s>>
  ELSE LET k == CHOOSE i \in 1..Len(s) :
                 s[i] = "," /\ \A j \in 1..(i - 1) : s[j] # ","
       IN <<SubSeq(s, 1, k - 1)>> \o SplitComma(SubSeq(s, k + 1, Len(s)))

\* .map(t => t.trim()).filter(Boolean)
RECURSIVE TrimmedTerms(_)
TrimmedTerms(parts) ==
  IF parts = <<>> THEN <<>>
  ELSE (IF Trim(Head(parts)) = <<>> THEN <<>> ELSE <<Trim(Head(parts))>>)
       \o TrimmedTerms(Tail(parts))

Range(s) == {s[i] : i \in 1..Len(s)}

\* the filter callback: every term is in the question or in a tag
MatchesTerms(p, searchTerms) ==
  LET questionLower == ToLowerCase(p.question)
      tagNames == {ToLowerCase(t) : t \in Range(p.skill_tags)}
  IN \A term \in Range(searchTerms) :
       \/ Includes(questionLower, term)
       \/ \E tag \in tagNames : Includes(tag, term)

RECURSIVE FilterProblems(_, _)
FilterProblems(ps, searchTerms) ==
  IF ps = <<>> THEN <<>>
  ELSE (IF MatchesTerms(Head(ps), searchTerms) THEN <<Head(ps)>> ELSE <<>>)
       \o FilterProblems(Tail(ps), searchTerms)

\* the useMemo of the screen
filteredProblems ==
  IF Trim(searchQuery) # <<>>
  THEN FilterProblems(allProblems,
                      TrimmedTerms(SplitComma(ToLowerCase(searchQuery))))
  ELSE allProblems
displayedProblems == paginateProblems(filteredProblems, currentPage, PAGE_SIZE)
\* Math.ceil(filtered.length / PAGE_SIZE)
totalPages == (Len(filteredProblems) + PAGE_SIZE - 1) \div PAGE_SIZE

\* the screen has mounted with nothing cached: no problems, an empty search
\* box, page 0
InitList ==
  /\ attempts = <<>>
  /\ activity = <<>>
  /\ mounted = FALSE
  /\ problem = "p1"
  /\ steps = <<>>
  /\ typedDraft = <<>>
  /\ recognizedText = NoText
  /\ recognizedImage = NoImage
  /\ recognizing = FALSE
  /\ validating = FALSE
  /\ attemptId = 0
  /\ hasSavedRef = FALSE
  /\ isLoadingRef = FALSE
  /\ alert = "none"
  /\ ops = EmptyBag
  /\ now = 1
  /\ adopted = "none"
  /\ events = 0
  /\ fcAnswer = <<>>
  /\ fcSteps = <<>>
  /\ fcResult = <<>>
  /\ CheckerIdle
  /\ RecognizerIdle
  /\ failures = 0
  /\ LoaderIdle
  /\ PagerIdle
  /\ LevelIdle
  /\ AuthIdle
  /\ allProblems = <<>>
  /\ searchQuery = <<>>
  /\ currentPage = 0

\* init() of the mount effect: setAllProblems(problems)
ProblemsLoaded ==
  /\ allProblems = <<>>
  /\ allProblems' = LoadedProblems
  /\ UNCHANGED <<appVars, baseVars, authVars, searchQuery, currentPage>>

\* onChangeText={setSearchQuery}: a key is typed at the end of the box
TypeKey(key) ==
  /\ Len(searchQuery) < MaxQuery
  /\ searchQuery' = Append(searchQuery, key)
  /\ UNCHANGED <<appVars, baseVars, authVars, allProblems, currentPage>>

\* onChangeText={setSearchQuery}: the last character is deleted
Backspace ==
  /\ searchQuery # <<>>
  /\ searchQuery' = SubSeq(searchQuery, 1, Len(searchQuery) - 1)
  /\ UNCHANGED <<appVars, baseVars, authVars, allProblems, currentPage>>

\* a tag of a displayed problem is pressed
addTagToSearch(tag) ==
  /\ Len(searchQuery) <= MaxQuery
  /\ \E p \in Range(displayedProblems) : tag \in Range(p.skill_tags)
  /\ LET currentTags == TrimmedTerms(SplitComma(searchQuery))
     IN IF tag \notin Range(currentTags)
        THEN /\ searchQuery' = IF Len(currentTags) > 0
                               THEN searchQuery \o <<",", " ">> \o tag
                               ELSE tag
             /\ currentPage' = 0
        ELSE UNCHANGED <<searchQuery, currentPage>>
  /\ UNCHANGED <<appVars, baseVars, authVars, allProblems>>

\* the clear button, rendered while the box is not empty
ClearSearch ==
  /\ Len(searchQuery) > 0
  /\ searchQuery' = <<>>
  /\ currentPage' = 0
  /\ UNCHANGED <<appVars, baseVars, authVars, allProblems>>

\* the Prev button, rendered while totalPages > 1, disabled on page 0
PrevPage ==
  /\ totalPages > 1
  /\ currentPage # 0
  /\ currentPage' = IF currentPage - 1 > 0 THEN currentPage - 1 ELSE 0
  /\ UNCHANGED <<appVars, baseVars, authVars, allProblems, searchQuery>>

\* the Next button, rendered while totalPages > 1, disabled on the last page
NextPage ==
  /\ totalPages > 1
  /\ ~(currentPage >= totalPages - 1)
  /\ currentPage' = IF currentPage + 1 < totalPages - 1 THEN currentPage + 1
                    ELSE totalPages - 1
  /\ UNCHANGED <<appVars, baseVars, authVars, allProblems, searchQuery>>

NextList ==
  \/ ProblemsLoaded
  \/ \E key \in Keys : TypeKey(key)
  \/ Backspace
  \/ \E tag \in {<<"a", "x">>} : addTagToSearch(tag)
  \/ ClearSearch
  \/ PrevPage
  \/ NextPage

SpecList == InitList /\ [][NextList]_vars

\* ------------------------------------------- AuthProvider, AppNavigator
MaxSigns == 3

AuthenticatedScreens == {"ProblemsList", "ProblemSolve", "Profile"}
AuthScreens == {"Login", "Signup"}

AppNavigatorIgnoresLoading(user, loading) ==
  IF user # 0 THEN AuthenticatedScreens ELSE AuthScreens

\* the screens AppNavigator registers: none behind the activity indicator
AppNavigator(user, loading) ==
  IF loading THEN {}
  ELSE IF user # 0 THEN AuthenticatedScreens ELSE AuthScreens

\* the provider has mounted: user null, loading true, getSession called and
\* the listener subscribed; the library may hand the listener the initial
\* session as a first event
InitAuth ==
  /\ attempts = <<>>
  /\ activity = <<>>
  /\ mounted = FALSE
  /\ problem = "p1"
  /\ steps = <<>>
  /\ typedDraft = <<>>
  /\ recognizedText = NoText
  /\ recognizedImage = NoImage
  /\ recognizing = FALSE
  /\ validating = FALSE
  /\ attemptId = 0
  /\ hasSavedRef = FALSE
  /\ isLoadingRef = FALSE
  /\ alert = "none"
  /\ ops = EmptyBag
  /\ now = 1
  /\ adopted = "none"
  /\ events = 0
  /\ fcAnswer = <<>>
  /\ fcSteps = <<>>
  /\ fcResult = <<>>
  /\ CheckerIdle
  /\ RecognizerIdle
  /\ failures = 0
  /\ LoaderIdle
  /\ PagerIdle
  /\ LevelIdle
  /\ auSession \in {0, 1}
  /\ auCtxSession = 0
  /\ auUser = 0
  /\ auProfile = 0
  /\ auLoading = TRUE
  /\ auGetSession = TRUE
  /\ auEvents \in {<<>>, <<auSession>>}
  /\ auProfileLoads = 0
  /\ auScreens = AppNavigator(0, TRUE)
  /\ auSigns = 0
  /\ ListIdle

\* setSession(session); setUser(session?.user ?? null); then loadProfile
\* when there is a user, and setLoading(false) (and, for the listener,
\* setProfile(null)) when there is none; the navigator renders the result
ApplySession(session, clearProfile) ==
  /\ auCtxSession' = session
  /\ auUser' = session
  /\ IF session # 0
     THEN /\ auProfileLoads' = auProfileLoads + 1
          /\ UNCHANGED <<auProfile, auLoading>>
     ELSE /\ auProfile' = IF clearProfile THEN 0 ELSE auProfile
          /\ auLoading' = FALSE
          /\ UNCHANGED auProfileLoads
  /\ auScreens' = AppNavigator(auUser', auLoading')

\* supabase.auth.getSession() resolves
GetSessionResolves ==
  /\ auGetSession
  /\ auGetSession' = FALSE
  /\ ApplySession(auSession, FALSE)
  /\ UNCHANGED <<appVars, baseVars, listVars, auSession, auEvents, auSigns>>

\* the onAuthStateChange listener gets the next event
AuthStateChange ==
  /\ auEvents # <<>>
  /\ auEvents' = Tail(auEvents)
  /\ ApplySession(Head(auEvents), TRUE)
  /\ UNCHANGED <<appVars, baseVars, listVars, auSession, auGetSession, auSigns>>

\* loadProfile settles: the profile row, or an error that is logged
LoadProfileSettles(found) ==
  /\ auProfileLoads > 0
  /\ auProfileLoads' = auProfileLoads - 1
  /\ auProfile' = IF found THEN 1 ELSE auProfile
  /\ auLoading' = FALSE
  /\ auScreens' = AppNavigator(auUser, auLoading')
  /\ UNCHANGED <<appVars, baseVars, listVars, auSession, auCtxSession, auUser,
                 auGetSession, auEvents, auSigns>>

\* signIn from the login screen succeeds: supabase holds a session and
\* tells the listener
SignIn ==
  /\ auSigns < MaxSigns
  /\ "Login" \in auScreens
  /\ auSession' = 1
  /\ auEvents' = Append(auEvents, 1)
  /\ auSigns' = auSigns + 1
  /\ UNCHANGED <<appVars, baseVars, listVars, auCtxSession, auUser, auProfile,
                 auLoading, auGetSession, auProfileLoads, auScreens>>

\* handleDeepLink: the OAuth callback's tokens are given to setSession
DeepLink ==
  /\ auSigns < MaxSigns
  /\ auSession' = 1
  /\ auEvents' = Append(auEvents, 1)
  /\ auSigns' = auSigns + 1
  /\ UNCHANGED <<appVars, baseVars, listVars, auCtxSession, auUser, auProfile,
                 auLoading, auGetSession, auProfileLoads, auScreens>>

\* signOut succeeds
SignOut ==
  /\ auSigns < MaxSigns
  /\ auScreens = AuthenticatedScreens
  /\ auSession' = 0
  /\ auEvents' = Append(auEvents, 0)
  /\ auSigns' = auSigns + 1
  /\ UNCHANGED <<appVars, baseVars, listVars, auCtxSession, auUser, auProfile,
                 auLoading, auGetSession, auProfileLoads, auScreens>>

NextAuth ==
  \/ GetSessionResolves
  \/ AuthStateChange
  \/ \E found \in BOOLEAN : LoadProfileSettles(found)
  \/ SignIn
  \/ DeepLink
  \/ SignOut

SpecAuth == InitAuth /\ [][NextAuth]_vars

\* ------------------------------------------------------------ measures
RECURSIVE SumSolved(_)
SumSolved(rows) ==
  IF rows = <<>> THEN 0 ELSE rows[1].problems_solved + SumSolved(Tail(rows))

RECURSIVE SumSteps(_)
SumSteps(rows) ==
  IF rows = <<>> THEN 0 ELSE rows[1].steps_completed + SumSteps(Tail(rows))

SolvedPairs == {attempts[a].problem_id : a \in {b \in DOMAIN attempts : attempts[b].is_solved}}

LiveOps(pcs) == {o \in InFlight : o.live /\ o.pc \in pcs}
InFlightCount(S) == BagCardinality([o \in S |-> ops[o]])

\* ---------------------------------------------------------------- C1
\* C1: problems_solved is incremented at most once per (user, problem): today's
\* problems_solved never exceeds the number of problems the user has solved.
C1_SolvedCountedOncePerProblem ==
  SumSolved(activity) <= Cardinality(SolvedPairs)

\* ---------------------------------------------------------------- C2
\* C2: every append is persisted: once no request is in flight, the steps
\* stored for the screen's attempt are the local step list.
C2_AppendsPersisted ==
  (mounted /\ attemptId # 0 /\ ops = EmptyBag /\ Len(steps) > 0)
    => attempts[attemptId].steps = StepsToData(steps)

\* ---------------------------------------------------------------- C3
\* C3: at most one checkNewLine call started by commitTyped or commitInk is
\* in flight on a screen.
C3_OneValidationInFlight ==
  InFlightCount(LiveOps({"validate_typed", "validate_ink"})) <= 1

\* ---------------------------------------------------------------- C5
\* C5: a screen that loaded a solved attempt issues no update against that
\* attempt's record.
C5_ReplayIssuesNoUpdate ==
  adopted = "solved" =>
    ~\E o \in LiveOps({"save", "mark_update"}) : o.aid = attemptId

\* ---------------------------------------------------------------- C4
LatestUnsolved(pid) ==
  {a \in OfPair(pid) : /\ ~attempts[a].is_solved
                       /\ \A b \in OfPair(pid) : ~attempts[b].is_solved => b <= a}

LatestSolved(pid) ==
  {a \in OfPair(pid) :
     /\ attempts[a].is_solved
     /\ \A b \in OfPair(pid) :
          attempts[b].is_solved => attempts[b].completed_at <= attempts[a].completed_at}

LoadsInFlight(bag) ==
  BagCardinality([o \in {x \in BagToSet(bag) :
                           x.pc \in {"load_unsolved", "load_solved", "load_insert"}}
                  |-> bag[o]])

StoredSteps(a) == [i \in 1..Len(attempts[a].steps) |->
                    [text |-> attempts[a].steps[i].text,
                     outcome |-> attempts[a].steps[i].outcome,
                     feedback |-> attempts[a].steps[i].feedback,
                     imageBase64 |-> attempts[a].steps[i].imageBase64]]

C6_ValidationFailureIsNeutral ==
  [][\A op \in InFlight : \A resp \in JudgeFailures :
       Validated(op, resp) =>
         /\ alert' = alert
         /\ [op EXCEPT !.pc = "log_select"] \in BagToSet(ops')
         /\ op.live =>
              steps' = Append(steps,
                              [text |-> op.data[1].text,
                               outcome |-> "neutral",
                               feedback |-> FallbackFeedback,
                               imageBase64 |-> op.data[1].imageBase64])
    ]_vars

\* a step judged by the fallback is in the list
C6_FallbackStepCommitted ==
  \E i \in 1..Len(steps) :
    steps[i].outcome = "neutral" /\ steps[i].feedback = FallbackFeedback

\* ---------------------------------------------------------------- C7
\* needle occurs in hay at some position
IsSubstring(needle, hay) ==
  \E i \in 0..(Len(hay) - Len(needle)) :
    SubSeq(hay, i + 1, i + Len(needle)) = needle

\* C7 (as stated): when the final-check request fails, isSolved is true
\* exactly when the canonical answer is a substring of the concatenation of
\* all step texts.
C7_FallbackSearchesConcatenation ==
  [][\A resp \in FinalFailures :
       FinalCheck(resp) =>
         fcResult'[1].isSolved = IsSubstring(fcAnswer, ConcatTexts(fcSteps))
    ]_vars

\* C7 (amended): when the final-check request fails, checkIfSolved raises
\* nothing and isSolved is true exactly when the canonical answer, both sides
\* lowercased, is a substring of the text of at least one single step; it is
\* false for an empty step list.
C7_FallbackSearchesEachStep ==
  [][\A resp \in FinalFailures :
       FinalCheck(resp) =>
         /\ ~fcResult'[1].threw
         /\ fcResult'[1].isSolved =
              \E i \in 1..Len(fcSteps) :
                IsSubstring(ToLowerCase(fcAnswer), ToLowerCase(fcSteps[i].text))
         /\ fcSteps = <<>> => ~fcResult'[1].isSolved
    ]_vars

\* the fallback found the answer in one step of two although it is not, as
\* written, in the concatenation
C7_FallbackFoundFoldedAnswer ==
  /\ fcResult # <<>>
  /\ fcResult[1].isSolved
  /\ fcResult[1].feedback = FallbackSolved
  /\ Len(fcSteps) = 2
  /\ ~IsSubstring(fcAnswer, ConcatTexts(fcSteps))

\* ---------------------------------------------------------------- C8
\* C8: the write of logStepToActivity raises today's steps_completed by
\* exactly 1.
C8_CommitCountsOneStep ==
  [][\A op \in InFlight :
       LogWrite(op) => SumSteps(activity') = SumSteps(activity) + 1]_vars

\* ---------------------------------------------------------------- C9
\* C9: undo writes only after reading a steps_completed greater than 0, and
\* then that value less 1; no row ever holds a negative steps_completed.
C9_StepsCompletedNeverNegative ==
  /\ \A r \in DOMAIN activity : activity[r].steps_completed >= 0
  /\ \A o \in InFlight : o.pc = "undo_write" => o.row # 0 /\ o.num > 0

\* an undo that read 1 is about to write 0
C9_UndoAboutToWriteZero ==
  \E o \in InFlight : o.pc = "undo_write" /\ o.num = 1

\* ---------------------------------------------------------------- C10
\* C10: undo applied to the list a commit has just produced gives the list
\* the commit started from; an undo step removes exactly the last step; and
\* there is no undo step from an empty list.
C10_UndoInvertsAppend ==
  [][/\ \A op \in LiveOps({"validate_typed", "validate_ink"}) :
          \A resp \in JudgeOutcomes \cup JudgeFailures :
          Validated(op, resp) =>
            /\ Len(steps') = Len(steps) + 1
            /\ UndoSteps(steps') = steps
     /\ Undo => /\ Len(steps) > 0
                /\ steps = Append(steps', steps[Len(steps)])
     /\ steps = <<>> => UndoSteps(steps) = <<>>
    ]_vars

\* the screen's list is empty again after the step committed on this new
\* attempt (and saved) was undone
C10_CommittedThenUndone ==
  /\ mounted /\ adopted = "new" /\ steps = <<>>
  /\ attempts[attemptId].steps # <<>>
  /\ \E o \in InFlight : o.live /\ o.pc = "undo_select"

\* ---------------------------------------------------------------- C11
\* C11: appending the steps of a solved list to it once more leaves it solved,
\* for the screen's outcome-based flag and for the built-in isSolved.
C11_ReappendKeepsSolved ==
  [][HcReappend =>
       /\ hcSteps' = hcSteps \o hcSteps
       /\ Solved(hcSteps) => Solved(hcSteps')
       /\ isSolved(hcSteps) => isSolved(hcSteps')
    ]_vars

\* a two-step list solved under both flags has been appended to itself
C11_SolvedListReappended ==
  /\ Len(hcSteps) = 4
  /\ SubSeq(hcSteps, 1, 2) = SubSeq(hcSteps, 3, 4)
  /\ Solved(hcSteps) /\ isSolved(hcSteps)

\* ---------------------------------------------------------------- C12
\* the list after one step was appended to it: the steps it had are where and
\* what they were
AppendedOne(before, after) ==
  /\ Len(after) = Len(before) + 1
  /\ SubSeq(after, 1, Len(before)) = before

\* the list after its last step was removed
RemovedLast(before, after) ==
  /\ Len(before) > 0
  /\ after = SubSeq(before, 1, Len(before) - 1)

\* loadOrCreateAttempt has put the stored steps of the attempt it adopted
LoadedStored ==
  /\ adopted' \in {"unsolved", "solved"}
  /\ attemptId' \in DOMAIN attempts
  /\ steps' = DataToSteps(attempts[attemptId'].steps)

\* C12: while the screen is shown, the list changes only by appending one step
\* at the end or by removing the last step, so a step that remains keeps the
\* text, outcome and feedback it was appended with.
C12_OnlyAppendOrRemoveLast ==
  [][mounted /\ mounted' =>
       \/ steps' = steps
       \/ AppendedOne(steps, steps')
       \/ RemovedLast(steps, steps')
    ]_vars

\* C12, with the load: the list changes only by appending one step at the end,
\* by removing the last step, or by loadOrCreateAttempt replacing the whole
\* list by the stored steps of the attempt it adopts (an appended step has a
\* judged outcome); entering and leaving the screen empty it.
C12_AppendRemoveLastOrLoad ==
  [][/\ mounted /\ mounted' =>
          \/ steps' = steps
          \/ /\ AppendedOne(steps, steps')
             /\ steps'[Len(steps')].outcome \in JudgeOutcomes
          \/ RemovedLast(steps, steps')
          \/ LoadedStored
     /\ mounted # mounted' => steps' = <<>>
    ]_vars

\* a step was appended to the two steps loaded from the store
C12_AppendedToLoaded ==
  /\ mounted /\ adopted = "unsolved" /\ Len(steps) = 3
  /\ SubSeq(steps, 1, 2) = DataToSteps(StoredSession[1].steps)

\* ---------------------------------------------------------------- C13
\* the list is not empty and its last step is correct
LastCorrect(ss) == Len(ss) > 0 /\ ss[Len(ss)].outcome = "correct"

\* the calls of markAsSolved a step of the screen starts
MarkStarted == {o \in BagToSet(ops') : /\ o.live /\ o.pc = "mark_update"
                                       /\ CopiesIn(o, ops') > CopiesIn(o, ops)}

\* C13: the solved flag is true exactly when the list is not empty and its last
\* step is correct, before and after every step; markAsSolved is started only
\* by a render whose list ends with a correct step.
C13_SolvedIffLastCorrect ==
  [][/\ Solved(steps) <=> LastCorrect(steps)
     /\ Solved(steps') <=> LastCorrect(steps')
     /\ MarkStarted # {} => LastCorrect(steps')
    ]_vars

\* a correct step followed by a step that is not: the flag is down
C13_CorrectStepNotLast ==
  /\ mounted /\ Len(steps) = 2
  /\ steps[1].outcome = "correct" /\ steps[2].outcome # "correct"
  /\ ~Solved(steps)

\* ---------------------------------------------------------------- C14
\* the three lines of the reference solution
ReferenceLines ==
  {<<"x", "/", "1", "0", " ", "=", " ", "6">>,
   <<"x", " ", "=", " ", "6", "0">>,
   <<"6", "0", " ", "-", " ", "1", "5", " ", "=", " ", "4", "5">>}

\* the text holds the number 45 standing by itself: no letter, digit or
\* underscore next to it
States45(t) ==
  \E p \in 1..(Len(t) - 1) :
    /\ t[p] = "4" /\ t[p + 1] = "5"
    /\ p = 1 \/ ~IsWordChar(t[p - 1])
    /\ p + 1 = Len(t) \/ ~IsWordChar(t[p + 2])

\* C14: checkNewLine answers "correct" for x/10 = 6, x = 60 and 60 - 15 = 45
\* whatever the prior steps are; isSolved and finalCheck.correct are true for
\* every list with a step that states 45.
C14_ReferenceSolutionAccepted ==
  [][/\ HcCheck /\ hcLine \in ReferenceLines => hcResult'[1].outcome = "correct"
     /\ HcFinalCheck /\ (\E i \in 1..Len(hcSteps) : States45(hcSteps[i].text)) =>
          /\ isSolved(hcSteps)
          /\ hcFinal'[1].correct
    ]_vars

\* x = 60 was checked after two steps, and the final check passed a list
\* whose only step stating 45 was committed as incorrect
C14_ReferenceLineAfterSteps ==
  /\ hcLine = <<"x", " ", "=", " ", "6", "0">>
  /\ hcResult # <<>> /\ hcResult[1].outcome = "correct"
  /\ Len(hcSteps) = 2
  /\ ~States45(hcSteps[1].text)
  /\ States45(hcSteps[2].text) /\ hcSteps[2].outcome = "incorrect"
  /\ hcFinal # <<>> /\ hcFinal[1].correct

\* ---------------------------------------------------------------- C15
\* 60 - 15 = N with a number N that is not the number 45: the digits that
\* follow the equals sign are not "45" followed by something other than a digit
StatesWrongDifference ==
  Cat(<<SixtyMinusFifteenIs,
        <<"nla", Cat(<<Lit(<<"4", "5">>), <<"nla", Digit>>>>)>>,
        Plus(Digit)>>)

\* C15: checkNewLine answers "incorrect", with the feedback on the
\* subtraction, for every line that states 60 - 15 = N with N other than 45,
\* whichever "correct" pattern the line matches as well.
C15_WrongDifferenceIsIncorrect ==
  [][HcCheck /\ Test(StatesWrongDifference, ToLowerCase(normalize(hcLine))) =>
       hcResult'[1] = [outcome |-> "incorrect", feedback |-> FeedbackWrong]
    ]_vars

\* ---------------------------------------------------------------- C16
\* the line, normalized and in lower case, matches one of the five patterns
MatchesKnownPattern(line) ==
  LET t == ToLowerCase(normalize(line))
  IN \E re \in {wrongCompute, divEq, eq60, compute, final45} : Test(re, t)

\* C16: checkNewLine answers "neutral" for a line that matches none of the
\* known-good or known-bad patterns, and only for such a line; its outcome is
\* always correct, incorrect or neutral, never pending.
C16_UnrecognisedLineIsNeutral ==
  [][HcCheck =>
       /\ hcResult'[1].outcome \in {"correct", "incorrect", "neutral"}
       /\ hcResult'[1].outcome = "neutral" <=> ~MatchesKnownPattern(hcLine)
       /\ ~MatchesKnownPattern(hcLine) => hcResult'[1].feedback = FeedbackNeutral
    ]_vars

\* 145 was checked: it holds the digits 45 but matches no pattern
C16_NeutralLineChecked ==
  /\ hcLine = <<"1", "4", "5">>
  /\ ~MatchesKnownPattern(hcLine)
  /\ hcResult # <<>> /\ hcResult[1].outcome = "neutral"

\* ---------------------------------------------------------------- C17
\* r is t without the whitespace at its two ends
IsTrimmed(r, t) ==
  /\ r = <<>> \/ (~IsSpace(r[1]) /\ ~IsSpace(r[Len(r)]))
  /\ \E i \in 0..Len(t) :
       /\ i + Len(r) <= Len(t)
       /\ SubSeq(t, i + 1, i + Len(r)) = r
       /\ \A j \in (1..i) \cup ((i + Len(r) + 1)..Len(t)) : IsSpace(t[j])

FailsAt(op) ==
  LoadFails(op) \/ SaveFails(op) \/ LogFails(op) \/ MarkFails(op) \/ UndoFails(op)

\* the step list and the validating flag after the request op awaits, had it
\* succeeded
StepsOnSuccess(op) ==
  IF op.live /\ op.pc = "load_unsolved" /\ SelectUnsolved(op.pid) # 0
  THEN DataToSteps(attempts[SelectUnsolved(op.pid)].steps)
  ELSE IF op.live /\ op.pc = "load_solved" /\ SelectSolved(op.pid) # 0
  THEN DataToSteps(attempts[SelectSolved(op.pid)].steps)
  ELSE steps

ValidatingOnSuccess(op) ==
  IF op.live /\ op.pc = "log_write" THEN FALSE ELSE validating

\* C18: a failed store request of loadOrCreateAttempt, saveProgress,
\* logStepToActivity, markAsSolved or undo leaves the step list and the
\* validating flag as they would be had it succeeded.
C18_FailureLeavesListAsOnSuccess ==
  [][\A op \in InFlight :
       FailsAt(op) => /\ steps' = StepsOnSuccess(op)
                      /\ validating' = ValidatingOnSuccess(op)
    ]_vars

\* C18, a failed lookup of loadOrCreateAttempt apart: a failed store request
\* raises no alert, is not issued again, leaves the step list as it is and the
\* validating flag as on success; in saveProgress, logStepToActivity,
\* markAsSolved, undo and the insert of loadOrCreateAttempt that is the list
\* a success leaves.
C18_FailureSwallowed ==
  [][\A op \in InFlight :
       FailsAt(op) =>
         /\ alert' = alert
         /\ BagCardinality(ops') <= BagCardinality(ops)
         /\ \A o \in BagToSet(ops') :
              o.pc = op.pc => CopiesIn(o, ops') <= CopiesIn(o, ops)
         /\ steps' = steps
         /\ validating' = ValidatingOnSuccess(op)
         /\ op.pc \notin {"load_unsolved", "load_solved"} =>
              steps' = StepsOnSuccess(op)
    ]_vars

\* the step was committed and saved, the insert of today's row failed: no
\* alert, the flag is down, nothing is in flight
C18_LogFailedAfterCommit ==
  /\ failures = 1 /\ mounted /\ Len(steps) = 1
  /\ ~validating /\ alert = "none" /\ ops = EmptyBag
  /\ attemptId # 0 /\ attempts[attemptId].steps # <<>>
  /\ activity = <<>>

\* ---------------------------------------------------------------- C19
\* C19: activity_log holds at most one row of the user for today.
C19_OneActivityRowPerDay == Len(activity) <= 1

\* ---------------------------------------------------------------- C20
\* a load is in flight: its promise is pending
LoadInFlight == loadingPromise # 0 /\ promises[loadingPromise] = <<>>

\* C20: the file is read at most once; a call made while the load is in
\* flight returns the promise of that load and reads nothing; a call made
\* after the load returns the cached list and reads nothing; a load that
\* fails caches the empty list.
C20_DatasetReadOnce ==
  [][/\ reads <= 1 /\ reads' <= 1
     /\ \A throwsAtOnce \in BOOLEAN :
          LoadProblems(throwsAtOnce) =>
            LET r == returned'[Len(returned')]
            IN /\ LoadInFlight => /\ reads' = reads
                                  /\ r.promise = loadingPromise
                                  /\ promises' = promises
               /\ cachedProblems # <<>> => /\ reads' = reads
                                           /\ r = [promise |-> 0, value |-> cachedProblems]
                                           /\ cachedProblems' = cachedProblems
               /\ throwsAtOnce /\ reads = 0 => cachedProblems' = <<<<>>>>
     /\ \A outcome \in LoadOutcomes :
          LoadSettles(outcome) =>
            /\ outcome # "read" \/ ParseThrows(dataFile) => cachedProblems' = <<<<>>>>
            /\ outcome = "read" /\ ~ParseThrows(dataFile) =>
                 cachedProblems' = <<ParseLines(dataFile)>>
    ]_vars

\* a file with a line that is not JSON: the first call started the load, the
\* second shared its promise, the load failed, the third got the cached
\* empty list
C20_SharedThenCachedEmpty ==
  /\ dataFile = <<"{\"id\":1}", "{">>
  /\ Len(returned) = 3 /\ reads = 1
  /\ returned[1].promise = 1 /\ returned[2].promise = 1
  /\ returned[3] = [promise |-> 0, value |-> <<<<>>>>]
  /\ cachedProblems = <<<<>>>> /\ loadingPromise = 0

\* ---------------------------------------------------------------- C21
\* the elements of list at the 0-based positions start .. end - 1 that the
\* list has, in order
AtPositions(list, start, end) ==
  LET lo == IF start < 0 THEN 0 ELSE start
      hi == IF end > Len(list) THEN Len(list) ELSE end
  IN [k \in 1..(IF hi > lo THEN hi - lo ELSE 0) |-> list[lo + k]]

\* the pages p .. count - 1 one after the other
RECURSIVE PagesFrom(_, _, _, _)
PagesFrom(list, size, p, count) ==
  IF p >= count THEN <<>>
  ELSE paginateProblems(list, p, size) \o PagesFrom(list, size, p + 1, count)

\* ceil(n / size)
CeilDiv(n, size) == (n + size - 1) \div size

\* what C21 says of the page a call returns
PageAsStated ==
  /\ pgResult'[1] = AtPositions(pgList, pgPage * pgSize, pgPage * pgSize + pgSize)
  /\ Len(pgResult'[1]) <= pgSize
  /\ PagesFrom(pgList, pgSize, 0, CeilDiv(Len(pgList), pgSize)) = pgList

LevelOfSolved(p) ==
  CASE p = 0 -> 0
    [] p = 1 -> 1
    [] p = 2 -> 2
    [] p \in {3, 4} -> 3
    [] p >= 5 -> 4

\* C22: the level of a day is 0 without a row or with 0 problems solved, 1 for
\* 1 problem, 2 for 2, 3 for 3 or 4 and 4 for 5 or more, whatever
\* steps_completed is.
C22_LevelFromProblemsSolved ==
  [][RenderDay =>
       lvLevel'[1] = IF lvActivity = <<>> THEN 0
                     ELSE LevelOfSolved(lvActivity[1].problemsSolved)
    ]_vars

\* a day with steps and no problem solved was rendered at level 0, one with
\* four problems would be at level 3
C22_StepsOnlyDayRendered ==
  /\ lvActivity # <<>>
  /\ lvActivity[1].problemsSolved = 0 /\ lvActivity[1].stepsCompleted = 5
  /\ lvLevel = <<0>>
  /\ getActivityLevel(<<[problemsSolved |-> 4, stepsCompleted |-> 0]>>) = 3

\* ---------------------------------------------------------------- C23
\* C23: at most one saveProgress call of the screen shown is in flight, and
\* hasSavedRef is up exactly while there is one.
C23_OneSaveInFlight ==
  /\ InFlightCount(LiveOps({"save"})) <= 1
  /\ mounted => (hasSavedRef <=> LiveOps({"save"}) # {})

\* the list has changed while a save of the screen is in flight
C23_ListChangedDuringSave ==
  /\ mounted
  /\ \E o \in LiveOps({"save"}) : o.data # StepsToData(steps)

\* ---------------------------------------------------------------- C24
\* the calls of saveProgress a step of the screen starts
SaveStarted == {o \in BagToSet(ops') : /\ o.live /\ o.pc = "save"
                                       /\ CopiesIn(o, ops') > CopiesIn(o, ops)}

\* C24: the step in which loadOrCreateAttempt puts the stored steps of an
\* attempt into the list starts no saveProgress call.
C24_NoSaveForLoadedSteps ==
  [][\A op \in InFlight :
       (LoadUnsolved(op) \/ LoadSolved(op)) /\ steps' # steps => SaveStarted = {}
    ]_vars

\* ---------------------------------------------------------------- C25
\* the unsolved attempts the store holds for one problem
UnsolvedOf(pid) == {i \in 1..Len(attempts) : /\ attempts[i].problem_id = pid
                                             /\ ~attempts[i].is_solved}

\* C25: the store never holds two unsolved attempts for the same user and
\* problem.
C25_OneUnsolvedAttemptPerProblem ==
  \A pid \in Problems : Cardinality(UnsolvedOf(pid)) <= 1

\* ---------------------------------------------------------------- C26
\* C26: while the auth loading flag is true the navigator registers no
\* screen; once it is false the three app screens are registered exactly when
\* the context has a user, and the login and signup screens exactly when it
\* has none.
C26_ScreensFollowAuthState ==
  /\ auLoading => auScreens = {}
  /\ ~auLoading =>
       /\ (auScreens = AuthenticatedScreens <=> auUser # 0)
       /\ (auScreens = AuthScreens <=> auUser = 0)
       /\ auScreens \in {AuthenticatedScreens, AuthScreens}

\* a user has signed in after the loading flag was cleared: the app screens
\* are registered while the loadProfile call of the sign-in is in flight
C26_AppScreensAfterSignIn ==
  /\ ~auLoading /\ auUser # 0 /\ auSigns >= 1
  /\ auProfileLoads > 0
  /\ auScreens = AuthenticatedScreens

\* ---------------------------------------------------------------- C27
\* the steps commitInk appended: they carry an image or a recognized text
InkSteps ==
  {i \in 1..Len(steps) :
     \/ steps[i].imageBase64 # NoImage
     \/ steps[i].text \in {TextOf(img) : img \in InkImages}}

\* C27: every ink step holds the text that was recognized from the image it
\* holds.
C27_InkStepPairsTextWithItsImage ==
  \A i \in InkSteps :
    /\ steps[i].imageBase64 \in InkImages
    /\ steps[i].text = TextOf(steps[i].imageBase64)

\* ---------------------------------------------------------------- C28
\* C28: whenever the filtered result is not empty, the current page is one of
\* its pages, 0 .. totalPages - 1.
C28_PageWithinFilteredResult ==
  filteredProblems # <<>> => currentPage \in 0..(totalPages - 1)

\* ---------------------------------------------------------------- C29
\* C29: when no request is in flight, every attempt marked solved holds a
\* non-empty list of stored steps whose last step is "correct".
C29_SolvedAttemptEndsCorrect ==
  ops = EmptyBag =>
    \A a \in 1..Len(attempts) :
      attempts[a].is_solved =>
        /\ attempts[a].steps # <<>>
        /\ attempts[a].steps[Len(attempts[a].steps)].outcome = "correct"

\* ---------------------------------------------------------------- C30
\* C30: on a screen that created its attempt, when no request is in flight
\* and the list is empty (undo removed the only step), the stored steps are
\* empty too.
C30_UndoToEmptyIsStored ==
  (mounted /\ adopted = "new" /\ attemptId # 0 /\ ops = EmptyBag /\ steps = <<>>)
    => attempts[attemptId].steps = <<>>

====
